---------------------------- MODULE Spec2Model ----------------------------
(***************************************************************************)
(* A model of the limbo reasoner: the query normaliser and the             *)
(* split-and-sense entailment procedure of src/src/query.c, the term       *)
(* store of src/src/limbo/term.h and the clauses of                        *)
(* src/src/limbo/clause.h / literal.h.                                     *)
(*                                                                         *)
(* Standard names are positive integers, variables negative integers       *)
(* (setup.h: "Variables are represented by negative values, standard      *)
(* names by non-negative integers").                                       *)
(***************************************************************************)
EXTENDS Integers, Sequences, FiniteSets, TLC

VARIABLES
    \* ---- query_test (query.c:505-552): one call, step by step
    q_phi0,      \* the query as handed to query_test
    q_bat,       \* the static BAT (ground clauses)
    q_k,         \* the split budget k
    q_pc,        \* position inside query_test
    q_hplus,     \* hplus (sorted sequence of names)
    q_ennf,      \* phi after query_ennf
    q_phi,       \* phi after query_simplify (NULL when constant)
    q_tv,        \* the local truth_value
    q_setup,     \* the ground setup, closed under unit propagation
    q_cnf,       \* cnf, as the sequence cnf_get() walks
    q_i,         \* loop index i of the clause loop
    q_seen,      \* verdict of query_test_clause per visited clause
    q_ret,       \* value returned by query_test
    q_consulted  \* TRUE once setup_ground_clauses has been called

queryVars == <<q_phi0, q_bat, q_k, q_pc, q_hplus, q_ennf, q_phi, q_tv,
               q_setup, q_cnf, q_i, q_seen, q_ret, q_consulted>>

VARIABLES
    \* ---- query_test_clause (query.c:493-503) called with growing k
    s_setup,     \* the setup
    s_pel,       \* the PEL, as the vector pelset_get() walks
    s_c,         \* the query clause
    s_res        \* s_res[k + 1] is what the call with budget k returned

splitVars == <<s_setup, s_pel, s_c, s_res>>

VARIABLES
    \* ---- query_test_split / query_test_sense (query.c:423-491), call by call
    r_setup,     \* the setup
    r_pel,       \* the PEL
    r_c,         \* the query clause
    r_k,         \* the budget k of the outermost call
    r_split,     \* the litset `split' all calls share
    r_zs,        \* the stdvecset zs the calls of query_test_sense share
    r_stack,     \* the call stack, innermost call last
    r_ret        \* the value the last finished call returned

runVars == <<r_setup, r_pel, r_c, r_k, r_split, r_zs, r_stack, r_ret>>

VARIABLES
    \* ---- Term::Factory (term.h:276-344)
    name_heap_,                  \* vector of Data of the names
    variable_and_function_heap_, \* vector of Data of the other terms
    memory_,                     \* per sort: the interned (Data, id) pairs
    t_calls                      \* the CreateTerm calls made: symbol, args, returned id

termVars == <<name_heap_, variable_and_function_heap_, memory_, t_calls>>

VARIABLES
    \* ---- Clause::Factory (clause.h:174-273)
    cf_clauses,  \* the clauses created by New, in order of creation
    cf_k         \* the number of literals handed to the last New

clauseVars == <<cf_clauses, cf_k>>

VARIABLES
    \* ---- ground_clauses (clause.c:29-58)
    g_univ_clauses, \* parameter univ_clauses[]
    g_zs,           \* parameter zs
    g_ns,           \* parameter ns
    g_box,          \* local box_clauses when the function returns
    g_ret,          \* the setup returned
    g_pc            \* "call" before, "done" after the call

groundVars == <<g_univ_clauses, g_zs, g_ns, g_box, g_ret, g_pc>>

VARIABLES
    \* ---- Literal (literal.h)
    lt_call      \* the last construction: sign, the two terms, and the
                 \* literals built from (a, b) and from (b, a)

litVars == <<lt_call>>

VARIABLES
    \* ---- Clause::Factory::MemoryPool (clause.h:214-263)
    mp_sizeof_Lit,  \* sizeof(Lit) of the build, in bytes
    mp_capacity_,   \* capacity_
    mp_size_,       \* size_: the high-water mark
    mp_memory_,     \* the clauses constructed in the pool, by cref
    mp_log          \* the calls of New and Delete made, with size_ before and after

arenaVars == <<mp_sizeof_Lit, mp_capacity_, mp_size_, mp_memory_, mp_log>>

VARIABLES
    \* ---- Clause::Clause(size, first, guaranteed_normalized) (clause.h:140-148)
    nz_as,       \* the literals first[0..size-1]
    nz_c,        \* the clause constructed
    nz_pc        \* "call" before, "done" after the construction

normVars == <<nz_as, nz_c, nz_pc>>

VARIABLES
    \* ---- Term::Unify (term.h:397-428)
    u_call       \* the last call Unify<config>(l, r): its arguments and its result

unifyVars == <<u_call>>

VARIABLES
    \* ---- set_t (set.c): vec is the sorted vector, compar the comparator
    st_sets,     \* two sets l and r with one comparator: their vectors
    st_last      \* the last operation: its arguments, the set before, the result

setVars == <<st_sets, st_last>>

VARIABLES
    \* ---- Formula (formula.h): es_ is the list of elements in Polish notation
    fm_es,       \* two formulas l and r: their lists es_
    fm_last      \* the last formula built: the operator, its operands, where it went

formulaVars == <<fm_es, fm_last>>

laterVars == <<arenaVars, normVars, unifyVars, setVars, formulaVars>>

vars == <<queryVars, splitVars, runVars, termVars, clauseVars, groundVars, litVars, laterVars>>

\* the variables the actions of one part of the model leave alone
notQuery == <<litVars, groundVars, splitVars, runVars, termVars, clauseVars, laterVars>>
notSplit == <<litVars, groundVars, queryVars, runVars, termVars, clauseVars, laterVars>>
notRun == <<litVars, groundVars, queryVars, splitVars, termVars, clauseVars, laterVars>>
notTerm == <<litVars, groundVars, queryVars, splitVars, runVars, clauseVars, laterVars>>
notLit == <<queryVars, splitVars, runVars, termVars, clauseVars, groundVars, laterVars>>
notGround == <<litVars, queryVars, splitVars, runVars, termVars, clauseVars, laterVars>>
coreVars == <<queryVars, splitVars, runVars, termVars, clauseVars, groundVars, litVars>>
notArena == <<coreVars, normVars, unifyVars, setVars, formulaVars>>
notNorm == <<coreVars, arenaVars, unifyVars, setVars, formulaVars>>
notUnify == <<coreVars, arenaVars, normVars, setVars, formulaVars>>
notSet == <<coreVars, arenaVars, normVars, unifyVars, formulaVars>>
notFormula == <<coreVars, arenaVars, normVars, unifyVars, setVars>>
notClause == <<litVars, groundVars, queryVars, splitVars, runVars, termVars, laterVars>>

-----------------------------------------------------------------------------
(* Bounds of the model *)

\* names 1..NumNames may occur in queries and BATs
NumNames == 2
\* nesting depth of the queries handed to query_test
MaxDepth == 2
\* largest split budget k tried
MaxK == 1

-----------------------------------------------------------------------------
(* Sequences and sorted sets (vector.c, set.c) *)

Front(s) == SubSeq(s, 1, Len(s) - 1)
Last(s) == s[Len(s)]
Range(s) == {s[i] : i \in 1..Len(s)}

Max(S) == CHOOSE m \in S : \A n \in S : n <= m

\* a set of integers as the sorted vector a stdset keeps
RECURSIVE SortedSeq(_)
SortedSeq(S) ==
    IF S = {} THEN <<>>
    ELSE LET m == Max(S) IN Append(SortedSeq(S \ {m}), m)

\* vector_cmp on vectors of names: first differing element, then size
RECURSIVE vector_cmp(_, _)
vector_cmp(v1, v2) ==
    IF Len(v1) = 0 \/ Len(v2) = 0 THEN Len(v1) - Len(v2)
    ELSE IF v1[1] # v2[1] THEN v1[1] - v2[1]
    ELSE vector_cmp(Tail(v1), Tail(v2))

\* a set of name vectors as the sorted vector a stdvecset keeps
RECURSIVE SortedVecs(_)
SortedVecs(S) ==
    IF S = {} THEN <<>>
    ELSE LET m == CHOOSE v \in S : \A w \in S : vector_cmp(w, v) <= 0
         IN Append(SortedVecs(S \ {m}), m)

-----------------------------------------------------------------------------
(* Extended literals of the C reasoner: [z] (~)P(args) *)

SF == "SF"

literal_init(z, sign, pred, args) ==
    [z |-> z, sign |-> sign, pred |-> pred, args |-> args]

literal_flip(l) == [l EXCEPT !.sign = ~l.sign]

literal_prepend_all(z, l) == [l EXCEPT !.z = z \o l.z]

\* the atom of a literal: the literal made positive
literal_atom(l) == [l EXCEPT !.sign = TRUE]

-----------------------------------------------------------------------------
(* Query formulas (query.c:6-26, 586-672)                                  *)
(* An EX node carries a function from names to formulas; it is modelled    *)
(* as a body with a variable x, and phi(n) as the substitution of n for x. *)

NULL == [type |-> "NULL"]

query_eq(n1, n2) == [type |-> "EQ", n1 |-> n1, n2 |-> n2]
query_neq(n1, n2) == [type |-> "NEQ", n1 |-> n1, n2 |-> n2]
query_lit(z, sign, p, args) == [type |-> "LIT", lit |-> literal_init(z, sign, p, args)]
query_neg(phi) == [type |-> "NEG", phi |-> phi]
query_or(phi1, phi2) == [type |-> "OR", phi1 |-> phi1, phi2 |-> phi2]
query_and(phi1, phi2) == [type |-> "AND", phi1 |-> phi1, phi2 |-> phi2]
query_exists(x, body) == [type |-> "EX", x |-> x, phi |-> body]
query_forall(x, body) == query_neg(query_exists(x, body))
query_act(n, phi) == [type |-> "ACT", n |-> n, phi |-> phi]

SubstName(t, x, n) == IF t = x THEN n ELSE t

SubstSeq(s, x, n) == [i \in 1..Len(s) |-> SubstName(s[i], x, n)]

RECURSIVE Subst(_, _, _)
Subst(phi, x, n) ==
    CASE phi.type = "EQ" -> query_eq(SubstName(phi.n1, x, n), SubstName(phi.n2, x, n))
      [] phi.type = "NEQ" -> query_neq(SubstName(phi.n1, x, n), SubstName(phi.n2, x, n))
      [] phi.type = "LIT" ->
            [phi EXCEPT !.lit = literal_init(SubstSeq(phi.lit.z, x, n), phi.lit.sign,
                                             phi.lit.pred, SubstSeq(phi.lit.args, x, n))]
      [] phi.type = "OR" -> query_or(Subst(phi.phi1, x, n), Subst(phi.phi2, x, n))
      [] phi.type = "AND" -> query_and(Subst(phi.phi1, x, n), Subst(phi.phi2, x, n))
      [] phi.type = "NEG" -> query_neg(Subst(phi.phi, x, n))
      [] phi.type = "EX" -> query_exists(phi.x, Subst(phi.phi, x, n))
      [] phi.type = "ACT" -> query_act(SubstName(phi.n, x, n), Subst(phi.phi, x, n))

\* phi->u.ex.phi(n)
ExApply(phi, n) == Subst(phi.phi, phi.x, n)

RECURSIVE query_n_vars(_)
query_n_vars(phi) ==
    CASE phi.type \in {"EQ", "NEQ", "LIT"} -> 0
      [] phi.type \in {"OR", "AND"} -> query_n_vars(phi.phi1) + query_n_vars(phi.phi2)
      [] phi.type = "NEG" -> query_n_vars(phi.phi)
      [] phi.type = "EX" -> query_n_vars(ExApply(phi, 1))
      [] phi.type = "ACT" -> query_n_vars(phi.phi)

RECURSIVE query_names(_)
query_names(phi) ==
    CASE phi.type \in {"EQ", "NEQ"} -> {phi.n1, phi.n2}
      [] phi.type = "LIT" -> Range(phi.lit.z) \cup Range(phi.lit.args)
      [] phi.type \in {"OR", "AND"} -> query_names(phi.phi1) \cup query_names(phi.phi2)
      [] phi.type = "NEG" -> query_names(phi.phi)
      [] phi.type = "EX" ->
            (query_names(ExApply(phi, 1)) \ {1}) \cup (query_names(ExApply(phi, 2)) \ {2})
      [] phi.type = "ACT" -> query_names(phi.phi) \cup {phi.n}

\* hplus is a sorted sequence; i counts from 0 as in the C code.  The caller
\* guarantees i < Len(hplus) (see QT_Crash for the empty hplus).
RECURSIVE query_ground_quantifier(_, _, _, _)
query_ground_quantifier(existential, phi, hplus, i) ==
    LET psi1 == ExApply(phi, hplus[i + 1]) IN
    IF i + 1 = Len(hplus) THEN psi1
    ELSE LET psi2 == query_ground_quantifier(existential, phi, hplus, i + 1) IN
         IF existential THEN query_or(psi1, psi2) ELSE query_and(psi1, psi2)

RECURSIVE query_ennf_h(_, _, _, _)
query_ennf_h(phi, hplus, flip, z) ==
    CASE phi.type = "EQ" ->
            IF flip THEN [type |-> "NEQ", n1 |-> phi.n1, n2 |-> phi.n2] ELSE phi
      [] phi.type = "NEQ" ->
            IF flip THEN [type |-> "NEQ", n1 |-> phi.n1, n2 |-> phi.n2] ELSE phi
      [] phi.type = "LIT" ->
            LET l1 == IF flip THEN literal_flip(phi.lit) ELSE phi.lit
                l2 == IF Len(z) > 0 THEN literal_prepend_all(z, l1) ELSE l1
            IN [phi EXCEPT !.lit = l2]
      [] phi.type = "OR" ->
            LET psi1 == query_ennf_h(phi.phi1, hplus, flip, z)
                psi2 == query_ennf_h(phi.phi2, hplus, flip, z)
            IN IF flip THEN query_and(psi1, psi2) ELSE query_or(psi1, psi2)
      [] phi.type = "AND" ->
            LET psi1 == query_ennf_h(phi.phi1, hplus, flip, z)
                psi2 == query_ennf_h(phi.phi2, hplus, flip, z)
            IN IF flip THEN query_or(psi1, psi2) ELSE query_and(psi1, psi2)
      [] phi.type = "NEG" -> query_ennf_h(phi.phi, hplus, ~flip, z)
      [] phi.type = "EX" ->
            LET is_existential == ~flip
                psi == query_ground_quantifier(is_existential, phi, hplus, 0)
            IN query_ennf_h(psi, hplus, flip, z)
      [] phi.type = "ACT" ->
            LET zz == Append(z, phi.n) IN query_ennf_h(phi.phi, hplus, flip, zz)

query_ennf(phi, hplus) == query_ennf_h(phi, hplus, FALSE, <<>>)

RECURSIVE query_ennf_zs(_)
query_ennf_zs(phi) ==
    CASE phi.type \in {"EQ", "NEQ"} -> {}
      [] phi.type = "LIT" -> {phi.lit.z}
      [] phi.type \in {"OR", "AND"} -> query_ennf_zs(phi.phi1) \cup query_ennf_zs(phi.phi2)
      [] phi.type = "NEG" -> query_ennf_zs(phi.phi)

\* `truth_value' is a bool*; the conditions of query_simplify test the pointer
\* itself, which is never null.
truth_value_ptr == TRUE

\* returns [phi, tv, ub]: the simplified formula (or NULL), *truth_value, and
\* whether query_free() was reached with a NULL child: query_free(phi) on an
\* OR node whose phi1 or phi2 has just been set to NULL dereferences NULL
\* (query.c:291, 296 with 563-564).
RECURSIVE query_simplify(_, _)
query_simplify(phi, tv) ==
    CASE phi.type = "EQ" -> [phi |-> NULL, tv |-> (phi.n1 = phi.n2), ub |-> FALSE]
      [] phi.type = "NEQ" -> [phi |-> NULL, tv |-> (phi.n1 # phi.n2), ub |-> FALSE]
      [] phi.type = "LIT" -> [phi |-> phi, tv |-> tv, ub |-> FALSE]
      [] phi.type = "OR" ->
            LET r1 == query_simplify(phi.phi1, tv) IN
            IF r1.phi = NULL /\ truth_value_ptr
            THEN [phi |-> NULL, tv |-> r1.tv, ub |-> TRUE]
            ELSE LET r2 == query_simplify(phi.phi2, r1.tv)
                     ub == r1.ub \/ r2.ub
                 IN
                 IF r2.phi = NULL /\ truth_value_ptr
                 THEN [phi |-> NULL, tv |-> r2.tv, ub |-> TRUE]
                 ELSE IF r1.phi = NULL THEN [phi |-> r2.phi, tv |-> r2.tv, ub |-> ub]
                 ELSE IF r2.phi = NULL THEN [phi |-> r1.phi, tv |-> r2.tv, ub |-> ub]
                 ELSE [phi |-> query_or(r1.phi, r2.phi), tv |-> r2.tv, ub |-> ub]
      [] phi.type = "AND" ->
            LET r1 == query_simplify(phi.phi1, tv) IN
            IF r1.phi = NULL /\ ~truth_value_ptr
            THEN [phi |-> NULL, tv |-> r1.tv, ub |-> TRUE]
            ELSE LET r2 == query_simplify(phi.phi2, r1.tv)
                     ub == r1.ub \/ r2.ub
                 IN
                 IF r2.phi = NULL /\ ~truth_value_ptr
                 THEN [phi |-> NULL, tv |-> r2.tv, ub |-> TRUE]
                 ELSE IF r1.phi = NULL THEN [phi |-> r2.phi, tv |-> r2.tv, ub |-> ub]
                 ELSE IF r2.phi = NULL THEN [phi |-> r1.phi, tv |-> r2.tv, ub |-> ub]
                 ELSE [phi |-> query_and(r1.phi, r2.phi), tv |-> r2.tv, ub |-> ub]
      [] phi.type = "NEG" ->
            LET r == query_simplify(phi.phi, tv) IN
            IF r.phi = NULL THEN [phi |-> NULL, tv |-> r.tv, ub |-> r.ub]
            ELSE [phi |-> query_neg(r.phi), tv |-> r.tv, ub |-> r.ub]

\* a union that keeps only the first clause
clause_union_first(c1, c2) == c1

\* clause_union (a clause is a set of literals)
clause_union(c1, c2) == c1 \cup c2

\* a cnf is a set of clauses, a clause a set of literals.  The AND branch reads
\* phi->u.or.phi1/phi2, which alias u.and.phi1/phi2 in the union.
RECURSIVE query_cnf(_)
query_cnf(phi) ==
    CASE phi.type = "LIT" -> {{phi.lit}}
      [] phi.type = "OR" ->
            LET cnf1 == query_cnf(phi.phi1)
                cnf2 == query_cnf(phi.phi2)
            IN {clause_union(c1, c2) : c1 \in cnf1, c2 \in cnf2}
      [] phi.type = "AND" ->
            query_cnf(phi.phi1) \cup query_cnf(phi.phi2)

-----------------------------------------------------------------------------
(* Setups: sets of ground clauses (setup.h).  setup.c is not part of the   *)
(* sources; these operators follow the contract stated in setup.h:49-59.   *)

\* an arbitrary enumeration of a finite set (the comparators literal_cmp and
\* clause_cmp are not part of the sources)
RECURSIVE SeqOf(_)
SeqOf(S) ==
    IF S = {} THEN <<>>
    ELSE LET x == CHOOSE y \in S : TRUE IN <<x>> \o SeqOf(S \ {x})

\* the literals of d that are not falsified by the unit literals U
Reduce(d, U) == {l \in d : literal_flip(l) \notin U}

\* the unit literals derivable from S by unit propagation
RECURSIVE UnitClosure(_, _)
UnitClosure(S, U) ==
    LET new == {l \in UNION S : \E d \in S : Reduce(d, U) = {l}} IN
    IF new \subseteq U THEN U ELSE UnitClosure(S, U \cup new)

\* setup_propagate_units: closes the setup under resolution with its units
setup_propagate_units(S, split) ==
    LET T == S \cup {{l} : l \in split}
        U == UnitClosure(T, {})
    IN T \cup {Reduce(d, U) : d \in T} \cup {{l} : l \in U}

\* setup_subsumes: unit propagation of the setup and the split literals
\* contains a clause that is a subset of c
setup_subsumes(setup, split, c) ==
    \E d \in setup_propagate_units(setup, split) : d \subseteq c

\* clause_add_pel / setup_pel: the atoms eligible for splitting
clause_pel(c) == {literal_atom(l) : l \in {m \in c : m.pred # SF}}

setup_pel(setup) == UNION {clause_pel(d) : d \in setup}

\* the names mentioned in a ground clause set
clauses_names(S) == UNION {Range(l.z) \cup Range(l.args) : l \in UNION S}

\* bat_hplus (setup.h:30-32): the names of the BAT and the query plus one
\* additional name per variable
bat_hplus(bat, query_names_, n_query_vars) ==
    LET ns == clauses_names(bat.static) \cup query_names_
        top == IF ns = {} THEN 0 ELSE Max(ns)
    IN ns \cup ((top + 1)..(top + n_query_vars))

\* setup_ground_clauses for a BAT whose clauses are ground and static
setup_ground_clauses(bat, hplus, zs) == bat.static

-----------------------------------------------------------------------------
(* The split-and-sense procedure (query.c:406-503).  litset_t split is a   *)
(* set with litset_add / litset_remove, stdvecset_t zs a sorted vector.    *)

clause_action_sequences(c) ==
    SortedVecs(UNION {{SubSeq(l.z, 1, j) : j \in 0..(Len(l.z) - 1)} : l \in c})

\* returns [r, split, zs]: the verdict, and split and zs as the call leaves them
RECURSIVE query_test_sense(_, _, _, _, _)
query_test_sense(setup, split, pel, c, zs) ==
    IF setup_subsumes(setup, split, c) THEN [r |-> TRUE, split |-> split, zs |-> zs]
    ELSE IF Len(zs) > 0 THEN
        LET z == zs[Len(zs)]
            zs1 == Front(zs)
        IN IF Len(z) > 0 THEN
               LET z_prefix == Front(z)
                   n == Last(z)
                   sf1 == literal_init(z_prefix, TRUE, SF, <<n>>)
                   sf2 == literal_flip(sf1)
                   b1 == query_test_sense(setup, split \cup {sf1}, pel, c, zs1)
                   s1 == b1.split \ {sf1}
               IN IF b1.r THEN
                      LET b2 == query_test_sense(setup, s1 \cup {sf2}, pel, c, b1.zs)
                      IN [r |-> b2.r, split |-> b2.split \ {sf2}, zs |-> b2.zs]
                  ELSE [r |-> FALSE, split |-> s1, zs |-> b1.zs]
           ELSE [r |-> FALSE, split |-> split, zs |-> zs1]
    ELSE [r |-> FALSE, split |-> split, zs |-> zs]

\* returns [r, split]; SplitLoop is the for loop of query_test_split from
\* index i (counted from 1) with the local `tried'
RECURSIVE query_test_split(_, _, _, _, _)
RECURSIVE SplitLoop(_, _, _, _, _, _, _)
SplitLoop(setup, split, pel, c, k, i, tried) ==
    IF i > Len(pel) THEN
        IF ~tried THEN
            LET b == query_test_sense(setup, split, pel, c, clause_action_sequences(c))
            IN [r |-> b.r, split |-> b.split]
        ELSE [r |-> FALSE, split |-> split]
    ELSE
        LET l1 == pel[i]
            l2 == literal_flip(l1)
        IN IF l1 \in split \/ l2 \in split
           THEN SplitLoop(setup, split, pel, c, k, i + 1, tried)
           ELSE LET b1 == query_test_split(setup, split \cup {l1}, pel, c, k - 1)
                    s1 == b1.split \ {l1}
                IN IF ~b1.r THEN SplitLoop(setup, s1, pel, c, k, i + 1, TRUE)
                   ELSE LET b2 == query_test_split(setup, s1 \cup {l2}, pel, c, k - 1)
                            s2 == b2.split \ {l2}
                        IN IF b2.r THEN [r |-> TRUE, split |-> s2]
                           ELSE SplitLoop(setup, s2, pel, c, k, i + 1, TRUE)

query_test_split(setup, split, pel, c, k) ==
    IF setup_subsumes(setup, split, c) THEN [r |-> TRUE, split |-> split]
    ELSE IF k > 0 THEN SplitLoop(setup, split, pel, c, k, 1, FALSE)
    ELSE LET b == query_test_sense(setup, split, pel, c, clause_action_sequences(c))
         IN [r |-> b.r, split |-> b.split]

\* a test that never splits
query_test_clause_no_split(setup, pel, c, k) == setup_subsumes(setup, {}, c)

query_test_clause(setup, pel, c, k) ==
    IF setup_subsumes(setup, {}, c) THEN TRUE
    ELSE query_test_split(setup, {}, pel, c, k).r

-----------------------------------------------------------------------------
(* Truth of a ground formula.  An interpretation I is the set of the       *)
(* extended atoms that hold; names are standard names, so n1 = n2 holds    *)
(* exactly for identical names.  H is the range of the quantifiers.        *)

RECURSIVE Eval(_, _, _, _)
Eval(phi, z, I, H) ==
    CASE phi.type = "EQ" -> phi.n1 = phi.n2
      [] phi.type = "NEQ" -> phi.n1 # phi.n2
      [] phi.type = "LIT" ->
            (literal_atom(literal_prepend_all(z, phi.lit)) \in I) <=> phi.lit.sign
      [] phi.type = "OR" -> Eval(phi.phi1, z, I, H) \/ Eval(phi.phi2, z, I, H)
      [] phi.type = "AND" -> Eval(phi.phi1, z, I, H) /\ Eval(phi.phi2, z, I, H)
      [] phi.type = "NEG" -> ~Eval(phi.phi, z, I, H)
      [] phi.type = "EX" -> \E n \in H : Eval(ExApply(phi, n), z, I, H)
      [] phi.type = "ACT" -> Eval(phi.phi, Append(z, phi.n), I, H)

\* the extended atoms a formula can mention once its quantifiers range over H
RECURSIVE AtomsOf(_, _, _)
AtomsOf(phi, z, H) ==
    CASE phi.type \in {"EQ", "NEQ"} -> {}
      [] phi.type = "LIT" -> {literal_atom(literal_prepend_all(z, phi.lit))}
      [] phi.type \in {"OR", "AND"} -> AtomsOf(phi.phi1, z, H) \cup AtomsOf(phi.phi2, z, H)
      [] phi.type = "NEG" -> AtomsOf(phi.phi, z, H)
      [] phi.type = "EX" -> UNION {AtomsOf(ExApply(phi, n), z, H) : n \in H}
      [] phi.type = "ACT" -> AtomsOf(phi.phi, Append(z, phi.n), H)

\* phi and psi have the same truth value in every interpretation
Equivalent(phi, psi, H) ==
    \A I \in SUBSET (AtomsOf(phi, <<>>, H) \cup AtomsOf(psi, <<>>, H)) :
        Eval(phi, <<>>, I, H) <=> Eval(psi, <<>>, I, H)

RECURSIVE Mentions(_, _)
Mentions(phi, types) ==
    \/ phi.type \in types
    \/ /\ phi.type \in {"OR", "AND"}
       /\ Mentions(phi.phi1, types) \/ Mentions(phi.phi2, types)
    \/ /\ phi.type \in {"NEG", "EX", "ACT"}
       /\ Mentions(phi.phi, types)

-----------------------------------------------------------------------------
(* The queries and BATs handed to query_test *)

Names == 1..NumNames

P(n) == literal_init(<<>>, TRUE, "P", <<n>>)
Q(n) == literal_init(<<>>, TRUE, "Q", <<n>>)

QAtoms(V) ==
    {query_eq(p[1], p[2]) : p \in {q \in V \X V : q[1] <= q[2]}}
        \cup {query_neq(p[1], p[2]) : p \in {q \in V \X V : q[1] <= q[2]}}
        \cup {query_lit(<<>>, TRUE, "P", <<a>>) : a \in V}

\* the queries of nesting depth at most d over the names and variables V;
\* the variable bound at depth d is -d
RECURSIVE Queries(_, _)
Queries(d, V) ==
    IF d = 0 THEN QAtoms(V)
    ELSE LET sub == Queries(d - 1, V) IN
         sub \cup {query_neg(f) : f \in sub}
             \cup {query_or(a, f) : a \in QAtoms(V), f \in sub}
             \cup {query_and(a, f) : a \in QAtoms(V), f \in sub}
             \cup {query_exists(-d, f) : f \in Queries(d - 1, V \cup {-d})}
             \cup {query_act(n, f) : n \in V \cap Names, f \in sub}

Bats ==
    { [static |-> {}, sensing |-> {}],
      [static |-> {{P(1)}}, sensing |-> {}],
      [static |-> {{P(1), Q(1)}, {literal_flip(Q(1)), P(2)}}, sensing |-> {}],
      [static |-> {{literal_flip(literal_init(<<>>, TRUE, SF, <<1>>)),
                    literal_init(<<1>>, TRUE, "P", <<1>>)}},
       sensing |-> {literal_init(<<>>, TRUE, SF, <<1>>)}] }

-----------------------------------------------------------------------------
(* query_test (query.c:505-552), step by step *)

QueryIdle ==
    /\ q_phi0 = NULL /\ q_bat = [static |-> {}, sensing |-> {}] /\ q_k = 0
    /\ q_pc = "idle" /\ q_hplus = <<>> /\ q_ennf = NULL /\ q_phi = NULL
    /\ q_tv = FALSE /\ q_setup = {} /\ q_cnf = <<>> /\ q_i = 0
    /\ q_seen = <<>> /\ q_ret = FALSE /\ q_consulted = FALSE

SplitIdle == s_setup = {} /\ s_pel = <<>> /\ s_c = {} /\ s_res = <<>>

\* the sorts in use: Sort::Nonrigid(0) and Sort::Rigid(0) (term.h:63-64)
Sorts == {0, 1}

\* no literal constructed yet
NoCall == [pos |-> FALSE, a |-> 0, b |-> 0]

TermIdle ==
    /\ name_heap_ = <<>> /\ variable_and_function_heap_ = <<>>
    /\ memory_ = [srt \in Sorts |-> {}] /\ t_calls = <<>>
    /\ lt_call = NoCall

ArenaIdle ==
    /\ mp_sizeof_Lit = 0 /\ mp_capacity_ = 0 /\ mp_size_ = 0
    /\ mp_memory_ = {} /\ mp_log = <<>>

NormIdle == nz_as = <<>> /\ nz_c = [size |-> 0, as |-> <<>>] /\ nz_pc = "idle"

NoUnify == [config |-> 0, l |-> 0, r |-> 0, ok |-> FALSE, sub |-> <<>>]

UnifyIdle == u_call = NoUnify

NoSetOp == [op |-> "none", t |-> "l", elem |-> 0, before |-> <<>>, ret |-> FALSE]

SetIdle == st_sets = [l |-> <<>>, r |-> <<>>] /\ st_last = NoSetOp

NoFormulaOp == [op |-> "none", t |-> "l", phi |-> <<>>, psi |-> <<>>]

FormulaIdle == fm_es = [l |-> <<>>, r |-> <<>>] /\ fm_last = NoFormulaOp

LaterIdle == ArenaIdle /\ NormIdle /\ UnifyIdle /\ SetIdle /\ FormulaIdle

FactoryIdle ==
    /\ cf_clauses = <<>> /\ cf_k = 0
    /\ g_univ_clauses = <<>> /\ g_zs = <<>> /\ g_ns = <<>>
    /\ g_box = {} /\ g_ret = {} /\ g_pc = "idle"

ClauseIdle == FactoryIdle /\ LaterIdle

RunIdle ==
    /\ r_setup = {} /\ r_pel = <<>> /\ r_c = {} /\ r_k = 0 /\ r_split = {}
    /\ r_zs = <<>> /\ r_stack = <<>> /\ r_ret = FALSE

QueryInit ==
    /\ q_phi0 \in Queries(MaxDepth, Names)
    /\ q_bat \in Bats
    /\ q_k \in 0..MaxK
    /\ q_pc = "start"
    /\ q_hplus = <<>> /\ q_ennf = NULL /\ q_phi = NULL
    /\ q_tv = FALSE /\ q_setup = {} /\ q_cnf = <<>> /\ q_i = 0
    /\ q_seen = <<>> /\ q_ret = FALSE /\ q_consulted = FALSE
    /\ SplitIdle /\ RunIdle /\ TermIdle /\ ClauseIdle

\* query.c:512-518
QT_Hplus ==
    /\ q_pc = "start"
    /\ LET ns == query_names(q_phi0)
           n_vars == query_n_vars(q_phi0)
       IN q_hplus' = SortedSeq(bat_hplus(q_bat, ns, n_vars) \cup ns)
    /\ q_pc' = "hplus"
    /\ UNCHANGED <<q_phi0, q_bat, q_k, q_ennf, q_phi, q_tv, q_setup, q_cnf,
                   q_i, q_seen, q_ret, q_consulted>>
    /\ UNCHANGED notQuery

\* grounding a quantifier over an empty hplus reads stdset_get(hplus, 0):
\* vector_get's assert aborts (vector.c:73)
GroundsOverEmpty == Mentions(q_phi0, {"EX"}) /\ Len(q_hplus) = 0

\* query.c:520
QT_Ennf ==
    /\ q_pc = "hplus"
    /\ ~GroundsOverEmpty
    /\ q_ennf' = query_ennf(q_phi0, q_hplus)
    /\ q_pc' = "ennf"
    /\ UNCHANGED <<q_phi0, q_bat, q_k, q_hplus, q_phi, q_tv, q_setup, q_cnf,
                   q_i, q_seen, q_ret, q_consulted>>
    /\ UNCHANGED notQuery

QT_EnnfAbort ==
    /\ q_pc = "hplus"
    /\ GroundsOverEmpty
    /\ q_pc' = "aborted"
    /\ UNCHANGED <<q_phi0, q_bat, q_k, q_hplus, q_ennf, q_phi, q_tv, q_setup,
                   q_cnf, q_i, q_seen, q_ret, q_consulted>>
    /\ UNCHANGED notQuery

\* query.c:519-524.  The local truth_value is uninitialised when
\* query_simplify is entered.  When query_simplify runs query_free on a node
\* with a NULL child the process dereferences NULL: it is killed, or (the
\* behaviour being undefined) goes on.
QT_Simplify ==
    /\ q_pc = "ennf"
    /\ \E tv0 \in BOOLEAN, survives \in BOOLEAN :
         LET r == query_simplify(q_ennf, tv0) IN
         /\ r.ub \/ survives
         /\ q_phi' = r.phi
         /\ q_tv' = r.tv
         /\ IF ~survives THEN q_pc' = "aborted" /\ q_ret' = q_ret
            ELSE IF r.phi = NULL THEN q_pc' = "done" /\ q_ret' = r.tv
            ELSE q_pc' = "simplified" /\ q_ret' = q_ret
    /\ UNCHANGED <<q_phi0, q_bat, q_k, q_hplus, q_ennf, q_setup, q_cnf, q_i,
                   q_seen, q_consulted>>
    /\ UNCHANGED notQuery

\* query.c:525-541
QT_Setup ==
    /\ q_pc = "simplified"
    /\ LET zs == query_ennf_zs(q_phi)
           s == setup_ground_clauses(q_bat, q_hplus, zs)
                    \cup {{l} : l \in q_bat.sensing}
       IN q_setup' = setup_propagate_units(s, {})
    /\ q_consulted' = TRUE
    /\ q_cnf' = SeqOf(query_cnf(q_phi))
    /\ q_tv' = TRUE
    /\ q_i' = 0
    /\ q_pc' = "loop"
    /\ UNCHANGED <<q_phi0, q_bat, q_k, q_hplus, q_ennf, q_phi, q_seen, q_ret>>
    /\ UNCHANGED notQuery

\* the loop condition without its `&& truth_value'
LoopCondNoStop(i, n, truth_value) == i < n

\* the condition of the for loop, query.c:542
LoopCond(i, n, truth_value) == i < n /\ truth_value

\* one iteration of the loop, query.c:542-548
QT_Clause ==
    /\ q_pc = "loop"
    /\ LoopCond(q_i, Len(q_cnf), q_tv)
    /\ LET c == q_cnf[q_i + 1]
           pel == SeqOf(setup_pel(q_setup) \cup clause_pel(c))
           r == query_test_clause(q_setup, pel, c, q_k)
       IN /\ q_tv' = r
          /\ q_seen' = Append(q_seen, r)
    /\ q_i' = q_i + 1
    /\ UNCHANGED <<q_phi0, q_bat, q_k, q_pc, q_hplus, q_ennf, q_phi, q_setup,
                   q_cnf, q_ret, q_consulted>>
    /\ UNCHANGED notQuery

\* query.c:549-551
QT_Return ==
    /\ q_pc = "loop"
    /\ ~LoopCond(q_i, Len(q_cnf), q_tv)
    /\ q_ret' = q_tv
    /\ q_pc' = "done"
    /\ UNCHANGED <<q_phi0, q_bat, q_k, q_hplus, q_ennf, q_phi, q_tv, q_setup,
                   q_cnf, q_i, q_seen, q_consulted>>
    /\ UNCHANGED notQuery

QueryNext ==
    \/ QT_Hplus
    \/ QT_Ennf
    \/ QT_EnnfAbort
    \/ QT_Simplify
    \/ QT_Setup
    \/ QT_Clause
    \/ QT_Return

SpecQuery == QueryInit /\ [][QueryNext]_vars

-----------------------------------------------------------------------------
(* Properties of query_test and of the query normaliser *)

CnfEntailed ==
    \A c \in query_cnf(q_phi) :
        query_test_clause(q_setup, SeqOf(setup_pel(q_setup) \cup clause_pel(c)), c, q_k)

\* C2: when query_test returns, it returns true iff query_test_clause holds
\* for every clause of the CNF of the simplified query; when the query
\* simplifies to a constant (NULL), the constant is returned and the setup
\* has not been built.
C2_TrueIffEveryClauseEntailed ==
    q_pc = "done" =>
        IF q_phi = NULL THEN q_ret = q_tv /\ ~q_consulted
        ELSE q_consulted /\ (q_ret <=> CnfEntailed)

\* a run that returned false on a CNF of two clauses, one of them entailed
C2_Witness ==
    /\ q_pc = "done" /\ q_phi # NULL /\ ~q_ret
    /\ Len(q_cnf) = 2
    /\ \E c \in Range(q_cnf) :
          query_test_clause(q_setup, SeqOf(setup_pel(q_setup) \cup clause_pel(c)), c, q_k)

\* C8: for a query without quantifiers, the formula query_ennf returns has no
\* NEG node and is logically equivalent to the query (in particular the
\* negation of n1 != n2 is n1 = n2).
C8_EnnfEquivalentNoNeg ==
    (q_pc = "ennf" /\ ~Mentions(q_phi0, {"EX"})) =>
        /\ ~Mentions(q_ennf, {"NEG", "ACT", "EX"})
        /\ Equivalent(q_phi0, q_ennf, {})

\* C9: query_ennf grounds quantifiers by polarity: the result is equivalent
\* to the query with its quantifiers ranging over the names of hplus
\* (queries that mention n1 != n2 are left to C8).
C9_GroundingRespectsPolarity ==
    (q_pc = "ennf" /\ Mentions(q_phi0, {"EX"}) /\ ~Mentions(q_phi0, {"NEQ"})) =>
        Equivalent(q_phi0, q_ennf, Range(q_hplus))

\* C28: the query query_forall builds from phi is, after query_ennf over a
\* non-empty hplus, equivalent to the conjunction of phi(n) over the names n
\* of hplus.
C28_ForallIsConjunction ==
    (/\ q_pc = "ennf" /\ Len(q_hplus) > 0
     /\ q_phi0.type = "NEG" /\ q_phi0.phi.type = "EX"
     /\ q_phi0 = query_forall(q_phi0.phi.x, q_phi0.phi.phi)) =>
        LET H == Range(q_hplus)
            atoms == AtomsOf(q_ennf, <<>>, H) \cup AtomsOf(q_phi0, <<>>, H)
        IN \A I \in SUBSET atoms :
              Eval(q_ennf, <<>>, I, H)
                  <=> (\A n \in H : Eval(ExApply(q_phi0.phi, n), <<>>, I, H))

\* the state right after query_simplify
AfterSimplify ==
    \/ q_pc = "simplified"
    \/ q_pc = "done" /\ ~q_consulted
    \/ q_pc = "aborted" /\ q_ennf # NULL

\* C10: query_simplify returns a formula equivalent to its input, or NULL
\* with the truth value of its input, for every formula over EQ, NEQ, LIT,
\* OR, AND.
C10_SimplifyEquivalent ==
    AfterSimplify =>
        /\ q_pc # "aborted"
        /\ IF q_phi = NULL
           THEN \A I \in SUBSET AtomsOf(q_ennf, <<>>, {}) : Eval(q_ennf, <<>>, I, {}) <=> q_tv
           ELSE Equivalent(q_ennf, q_phi, {})

-----------------------------------------------------------------------------
(* query_test_clause on a fixed setup, PEL and clause, with k = 0, 1, ... *)

\* the query literal [1,1,1,1]P(1) and the sense fluents of its situations
q4 == literal_init(<<1, 1, 1, 1>>, TRUE, "P", <<1>>)
sfA == literal_init(<<>>, TRUE, SF, <<1>>)
sfB == literal_init(<<1>>, TRUE, SF, <<1>>)
sfC == literal_init(<<1, 1>>, TRUE, SF, <<1>>)
\* sense fluents of another action
sfY1 == literal_init(<<>>, TRUE, SF, <<2>>)
sfY2 == literal_init(<<2>>, TRUE, SF, <<2>>)

SplitClausePool ==
    { {sfC, literal_flip(sfA), sfY1}, {sfC, literal_flip(sfA), sfY2},
      {sfC, sfA, sfY1}, {sfC, sfA, sfY2},
      {literal_flip(sfY1), literal_flip(sfY2), q4},
      {literal_flip(sfC), literal_flip(sfB), q4},
      {literal_flip(sfC), sfB, q4} }

SplitPels == { <<>>, <<literal_atom(q4)>>, <<sfY1, literal_atom(q4)>> }

SplitQueryClauses == { {q4}, {q4, P(1)} }

SplitInit ==
    /\ s_setup \in SUBSET SplitClausePool
    /\ s_pel \in SplitPels
    /\ s_c \in SplitQueryClauses
    /\ s_res = <<>>
    /\ QueryIdle /\ RunIdle /\ TermIdle /\ ClauseIdle

\* the next call: query_test_clause(setup, pel, c, k) with k = Len(s_res)
ST_TestClause ==
    /\ Len(s_res) <= MaxK
    /\ s_res' = Append(s_res, query_test_clause(s_setup, s_pel, s_c, Len(s_res)))
    /\ UNCHANGED <<s_setup, s_pel, s_c>>
    /\ UNCHANGED notSplit

SplitNext == ST_TestClause

SpecSplit == SplitInit /\ [][SplitNext]_vars

\* C1: a clause entailed with budget k is entailed with budget k + 1
C1_MonotoneInK ==
    \A j \in 1..(Len(s_res) - 1) : s_res[j] => s_res[j + 1]

-----------------------------------------------------------------------------
(* query_test_clause on the knowledge bases of tests/solver.cc.  A literal  *)
(* f(args) = n of the tests is the positive literal f(args, n) of the       *)
(* reasoner, f(args) != n the negative one.                                 *)

Sonny == 1
Mary == 2
Fred == 3
Fox == 4

Father(x, y) == literal_init(<<>>, TRUE, "Father", <<x, y>>)
IsParentOf(y, x) == literal_init(<<>>, TRUE, "IsParentOf", <<y, x>>)

\* the instances over the names H of Father(x) != y || x == y || IsParentOf(y,x) == True
FatherRule(H) ==
    {{literal_flip(Father(x, y)), IsParentOf(y, x)} : x \in H, y \in H} \ 
        {{literal_flip(Father(x, x)), IsParentOf(x, x)} : x \in H}

\* the clause of Ex x Ex y IsParentOf(y,x) == True grounded over the names H
ParentQuery(H) == {IsParentOf(y, x) : x \in H, y \in H}

\* solver.cc:50-74
Father2 ==
    [setup |-> FatherRule({Sonny, Mary, Fred})
                   \cup {{Father(Sonny, Mary), Father(Sonny, Fred)}},
     c |-> ParentQuery({Sonny, Mary, Fred})]

\* solver.cc:76-99
Father3 ==
    [setup |-> FatherRule({Sonny, Mary, Fred, Fox})
                   \cup {{Father(Sonny, Mary), Father(Sonny, Fred), Father(Sonny, Fox)}},
     c |-> ParentQuery({Sonny, Mary, Fred, Fox})]

\* solver.cc:155-179; roo is the name 1, a literal f = T is the atom f
ECAI2016 ==
    LET Aussie == literal_init(<<>>, TRUE, "Aussie", <<>>)
        Italian == literal_init(<<>>, TRUE, "Italian", <<>>)
        Veggie == literal_init(<<>>, TRUE, "Veggie", <<>>)
        Eats == literal_init(<<>>, TRUE, "Eats", <<1>>)
        Meat == literal_init(<<>>, TRUE, "Meat", <<1>>)
    IN [setup |-> { {Meat},
                    {literal_flip(Meat), literal_flip(Eats), literal_flip(Veggie)},
                    {literal_flip(Aussie), literal_flip(Italian)},
                    {Aussie, Italian},
                    {literal_flip(Aussie), Eats},
                    {Italian, Veggie} },
        c |-> {literal_flip(Aussie)}]

\* setups with a clause L1 v L2 and clauses ~Li v Qi, and query clauses with
\* Q1 and Q2; Q11 stands in the situation after two actions
Q11 == literal_init(<<1, 1>>, TRUE, "Q", <<1>>)

BinaryCases ==
    LET Ls == {P(1), literal_flip(P(1)), P(2), literal_flip(P(2))}
        Qs == {Q(1), Q11}
        pool == { {literal_flip(sfA), Q11}, {sfA, Q11}, {P(1), Q(2)} }
    IN { [setup |-> {{L1, L2}, {literal_flip(L1), Q1}, {literal_flip(L2), Q2}} \cup extra,
          c |-> {Q1, Q2} \cup more]
         : L1 \in Ls, L2 \in Ls, Q1 \in Qs, Q2 \in Qs, extra \in SUBSET pool,
           more \in {{}, {Q(2)}} }

\* query.c:525-546: the setup is closed under unit propagation, the PEL is
\* that of the setup and of the clause
EntailInit ==
    /\ \E b \in {Father2, Father3, ECAI2016} \cup BinaryCases :
          /\ s_setup = setup_propagate_units(b.setup, {})
          /\ s_c = b.c
    /\ s_pel = SeqOf(setup_pel(s_setup) \cup clause_pel(s_c))
    /\ s_res = <<>>
    /\ QueryIdle /\ RunIdle /\ TermIdle /\ ClauseIdle

SpecEntail == EntailInit /\ [][ST_TestClause]_vars

\* the setup has a clause L1 v L2 and, for each Li, a clause ~Li v Qi with Qi in c
HasBinarySplit(setup, c) ==
    \E d \in setup :
        /\ \E L1 \in d, L2 \in d : d = {L1, L2}
        /\ \A L \in d : \E Q0 \in c : {literal_flip(L), Q0} \in setup

\* C14 as stated: with such a setup, and no clause of the setup subsuming c
\* without an assumption, c is not entailed at k = 0 and is entailed at k = 1
C14_OneSplitForBinaryDisjunction ==
    (/\ Len(s_res) = 2
     /\ HasBinarySplit(s_setup, s_c)
     /\ ~setup_subsumes(s_setup, {}, s_c)) => (s_res = <<FALSE, TRUE>>)

\* C14 amended: the same for a clause c whose literals have no action prefix
C14_OneSplitForStaticBinaryDisjunction ==
    (/\ Len(s_res) = 2
     /\ HasBinarySplit(s_setup, s_c)
     /\ \A l \in s_c : l.z = <<>>
     /\ ~setup_subsumes(s_setup, {}, s_c)) => (s_res = <<FALSE, TRUE>>)

\* the Father example with two candidates, tested at k = 0 and k = 1
C14_Witness ==
    /\ s_setup = setup_propagate_units(Father2.setup, {}) /\ s_c = Father2.c
    /\ HasBinarySplit(s_setup, s_c) /\ ~setup_subsumes(s_setup, {}, s_c)
    /\ s_res = <<FALSE, TRUE>>

\* C15: the Father example with three candidates is not entailed at k = 0
\* and is entailed at k = 1
C15_OneSplitForTernaryDisjunction ==
    (/\ Len(s_res) = 2
     /\ s_setup = setup_propagate_units(Father3.setup, {})
     /\ s_c = Father3.c) => (s_res = <<FALSE, TRUE>>)

\* C16: in the ECAI-2016 example Aussie != T is not entailed at k = 0 and is
\* entailed at k = 1
C16_SplitProvesNegatedLiteral ==
    (/\ Len(s_res) = 2
     /\ s_setup = setup_propagate_units(ECAI2016.setup, {})
     /\ s_c = ECAI2016.c) => (s_res = <<FALSE, TRUE>>)

\* the ECAI-2016 example tested at k = 0 and k = 1
C16_Witness ==
    /\ s_setup = setup_propagate_units(ECAI2016.setup, {}) /\ s_c = ECAI2016.c
    /\ Len(s_res) = 2 /\ s_res[2]

-----------------------------------------------------------------------------
(* query_test_split and query_test_sense as a machine with a call stack.   *)
(* A frame holds the locals of one call: the function, the position in     *)
(* its body, k, the loop index i, `tried', the literal it added to split,  *)
(* and (for query_test_sense) the size of zs when the call began.          *)

Frame(fn, pc, k, nzs) ==
    [fn |-> fn, pc |-> pc, k |-> k, i |-> 0, tried |-> FALSE, lit |-> sfA, nzs |-> nzs]

Top == r_stack[Len(r_stack)]
SetTop(f) == [r_stack EXCEPT ![Len(r_stack)] = f]

\* a recursive call with the budget unchanged
SplitBudgetSame(k) == k

\* the budget handed to a recursive call of query_test_split: k-1
SplitBudget(k) == k - 1

RunSetups ==
    { {}, SplitClausePool, {{sfA, q4}, {literal_flip(sfA), q4}},
      {{P(1), q4}, {literal_flip(P(1)), sfB, q4}, {literal_flip(P(1)), literal_flip(sfB), q4}},
      {{sfA, P(1), q4}} }

RunPels == SplitPels \cup { <<P(1), literal_atom(q4)>>, <<sfA, literal_atom(q4)>> }

RunInit ==
    /\ r_setup \in RunSetups
    /\ r_pel \in RunPels
    /\ r_c \in SplitQueryClauses
    /\ r_k \in 0..MaxK
    /\ r_split = {}
    /\ r_zs = <<>>
    /\ r_stack = <<Frame("split", "entry", r_k, 0)>>
    /\ r_ret = FALSE
    /\ QueryIdle /\ SplitIdle /\ TermIdle /\ ClauseIdle

\* return v to the caller
Return(v) == r_stack' = Front(r_stack) /\ r_ret' = v

\* zs = clause_action_sequences(c); return query_test_sense(setup, split, pel, c, &zs)
CallSense ==
    LET zs == clause_action_sequences(r_c) IN
    /\ r_zs' = zs
    /\ r_stack' = Append(SetTop([Top EXCEPT !.pc = "tail"]), Frame("sense", "entry", 0, Len(zs)))
    /\ UNCHANGED <<r_split, r_ret>>

\* query.c:457-460, 486-490
RS_SplitEntry ==
    /\ r_stack # <<>> /\ Top.fn = "split" /\ Top.pc = "entry"
    /\ IF setup_subsumes(r_setup, r_split, r_c)
       THEN Return(TRUE) /\ UNCHANGED <<r_split, r_zs>>
       ELSE IF Top.k > 0
       THEN /\ r_stack' = SetTop([Top EXCEPT !.pc = "loop", !.i = 0, !.tried = FALSE])
            /\ UNCHANGED <<r_split, r_zs, r_ret>>
       ELSE CallSense
    /\ UNCHANGED <<r_setup, r_pel, r_c, r_k>>
    /\ UNCHANGED notRun

\* query.c:461-469 and 480-485: the loop head up to the first recursive call
RS_SplitLoop ==
    /\ r_stack # <<>> /\ Top.fn = "split" /\ Top.pc = "loop"
    /\ IF Top.i >= Len(r_pel)
       THEN IF ~Top.tried THEN CallSense
            ELSE Return(FALSE) /\ UNCHANGED <<r_split, r_zs>>
       ELSE LET l1 == r_pel[Top.i + 1]
                l2 == literal_flip(l1)
            IN IF l1 \in r_split \/ l2 \in r_split
               THEN /\ r_stack' = SetTop([Top EXCEPT !.i = Top.i + 1])
                    /\ UNCHANGED <<r_split, r_zs, r_ret>>
               ELSE /\ r_split' = r_split \cup {l1}
                    /\ r_stack' = Append(SetTop([Top EXCEPT !.tried = TRUE, !.pc = "after1",
                                                            !.lit = l1]),
                                         Frame("split", "entry", SplitBudget(Top.k), 0))
                    /\ UNCHANGED <<r_zs, r_ret>>
    /\ UNCHANGED <<r_setup, r_pel, r_c, r_k>>
    /\ UNCHANGED notRun

\* query.c:470-475: after the call for l1
RS_SplitAfter1 ==
    /\ r_stack # <<>> /\ Top.fn = "split" /\ Top.pc = "after1"
    /\ LET l2 == literal_flip(Top.lit) IN
       IF ~r_ret
       THEN /\ r_split' = r_split \ {Top.lit}
            /\ r_stack' = SetTop([Top EXCEPT !.pc = "loop", !.i = Top.i + 1])
       ELSE /\ r_split' = (r_split \ {Top.lit}) \cup {l2}
            /\ r_stack' = Append(SetTop([Top EXCEPT !.pc = "after2", !.lit = l2]),
                                 Frame("split", "entry", SplitBudget(Top.k), 0))
    /\ UNCHANGED <<r_setup, r_pel, r_c, r_k, r_zs, r_ret>>
    /\ UNCHANGED notRun

\* query.c:476-479: after the call for l2
RS_SplitAfter2 ==
    /\ r_stack # <<>> /\ Top.fn = "split" /\ Top.pc = "after2"
    /\ r_split' = r_split \ {Top.lit}
    /\ IF r_ret THEN Return(TRUE)
       ELSE /\ r_stack' = SetTop([Top EXCEPT !.pc = "loop", !.i = Top.i + 1])
            /\ UNCHANGED r_ret
    /\ UNCHANGED <<r_setup, r_pel, r_c, r_k, r_zs>>
    /\ UNCHANGED notRun

\* query.c:482, 489: return what query_test_sense returned
RS_SplitTail ==
    /\ r_stack # <<>> /\ Top.fn = "split" /\ Top.pc = "tail"
    /\ Return(r_ret)
    /\ UNCHANGED <<r_setup, r_pel, r_c, r_k, r_split, r_zs>>
    /\ UNCHANGED notRun

\* query.c:426-438, 446-451
RS_SenseEntry ==
    /\ r_stack # <<>> /\ Top.fn = "sense" /\ Top.pc = "entry"
    /\ IF setup_subsumes(r_setup, r_split, r_c)
       THEN Return(TRUE) /\ UNCHANGED <<r_split, r_zs>>
       ELSE IF Len(r_zs) > 0
       THEN LET z == r_zs[Len(r_zs)]
                zs1 == Front(r_zs)
            IN /\ r_zs' = zs1
               /\ IF Len(z) > 0
                  THEN LET sf1 == literal_init(Front(z), TRUE, SF, <<Last(z)>>) IN
                       /\ r_split' = r_split \cup {sf1}
                       /\ r_stack' = Append(SetTop([Top EXCEPT !.pc = "after1", !.lit = sf1]),
                                            Frame("sense", "entry", 0, Len(zs1)))
                       /\ UNCHANGED r_ret
                  ELSE Return(FALSE) /\ UNCHANGED r_split
       ELSE Return(FALSE) /\ UNCHANGED <<r_split, r_zs>>
    /\ UNCHANGED <<r_setup, r_pel, r_c, r_k>>
    /\ UNCHANGED notRun

\* query.c:439-443: after the call for sf1
RS_SenseAfter1 ==
    /\ r_stack # <<>> /\ Top.fn = "sense" /\ Top.pc = "after1"
    /\ LET sf2 == literal_flip(Top.lit) IN
       IF r_ret
       THEN /\ r_split' = (r_split \ {Top.lit}) \cup {sf2}
            /\ r_stack' = Append(SetTop([Top EXCEPT !.pc = "after2", !.lit = sf2]),
                                 Frame("sense", "entry", 0, Len(r_zs)))
            /\ UNCHANGED r_ret
       ELSE /\ r_split' = r_split \ {Top.lit}
            /\ Return(FALSE)
    /\ UNCHANGED <<r_setup, r_pel, r_c, r_k, r_zs>>
    /\ UNCHANGED notRun

\* query.c:443-445: after the call for sf2
RS_SenseAfter2 ==
    /\ r_stack # <<>> /\ Top.fn = "sense" /\ Top.pc = "after2"
    /\ r_split' = r_split \ {Top.lit}
    /\ Return(r_ret)
    /\ UNCHANGED <<r_setup, r_pel, r_c, r_k, r_zs>>
    /\ UNCHANGED notRun

RunNext ==
    \/ RS_SplitEntry
    \/ RS_SplitLoop
    \/ RS_SplitAfter1
    \/ RS_SplitAfter2
    \/ RS_SplitTail
    \/ RS_SenseEntry
    \/ RS_SenseAfter1
    \/ RS_SenseAfter2

SpecRun == RunInit /\ [][RunNext]_vars

RunDone == r_stack = <<>>

\* every recursive call of query_test_split has a smaller budget than its
\* caller, and every recursive call of query_test_sense starts with fewer
\* action sequences left than its caller started with
RunMeasure ==
    \A j \in 1..(Len(r_stack) - 1) :
        LET f == r_stack[j]
            g == r_stack[j + 1]
        IN /\ (f.fn = "split" /\ g.fn = "split") => (0 <= g.k /\ g.k < f.k)
           /\ (f.fn = "sense" /\ g.fn = "sense") => g.nzs < f.nzs

\* the positions the actions RS_* continue from
RunCanStep ==
    /\ r_stack # <<>>
    /\ \/ Top.fn = "split" /\ Top.pc \in {"entry", "loop", "after1", "after2", "tail"}
       \/ Top.fn = "sense" /\ Top.pc \in {"entry", "after1", "after2"}

\* an upper bound on the steps a call of query_test_sense takes with n
\* action sequences left
RECURSIVE SenseWork(_)
SenseWork(n) == IF n = 0 THEN 1 ELSE 3 + 2 * SenseWork(n - 1)

\* an upper bound on the steps a call of query_test_split takes with budget k
RECURSIVE SplitWork(_)
SplitWork(k) ==
    LET sense == SenseWork(Len(clause_action_sequences(r_c))) IN
    IF k = 0 THEN 2 + sense
    ELSE 3 + sense + Len(r_pel) * (3 + 2 * SplitWork(k - 1))

\* the steps frame f still takes itself or hands to calls it has yet to make
FrameWork(f) ==
    LET sense == SenseWork(Len(clause_action_sequences(r_c)))
        loop(i) == (Len(r_pel) - i) * (3 + 2 * SplitWork(f.k - 1)) + 2 + sense
    IN CASE f.fn = "sense" /\ f.pc = "entry" -> SenseWork(f.nzs)
         [] f.fn = "sense" /\ f.pc = "after1" -> 2 + SenseWork(f.nzs - 1)
         [] f.fn = "sense" /\ f.pc = "after2" -> 1
         [] f.fn = "split" /\ f.pc = "entry" -> SplitWork(f.k)
         [] f.fn = "split" /\ f.pc = "loop" -> loop(f.i)
         [] f.fn = "split" /\ f.pc = "after1" -> 2 + SplitWork(f.k - 1) + loop(f.i + 1)
         [] f.fn = "split" /\ f.pc = "after2" -> 1 + loop(f.i + 1)
         [] f.fn = "split" /\ f.pc = "tail" -> 1

RECURSIVE StackWork(_)
StackWork(st) == IF st = <<>> THEN 0 ELSE FrameWork(st[1]) + StackWork(Tail(st))

RunRank == StackWork(r_stack)

\* C3: query_test_split with query_test_sense terminates and returns a
\* boolean: each recursive PEL split decreases k, each recursive sense split
\* shrinks the remaining action sequences, an unfinished call can always
\* take its next step, and every step lowers a rank that is never negative.
C3_SplitAndSenseTerminates ==
    /\ [](RunMeasure /\ RunRank >= 0 /\ r_ret \in BOOLEAN)
    /\ [](RunDone \/ RunCanStep)
    /\ [][RunRank' < RunRank]_vars

\* a PEL split whose branch is inside two nested sense splits
C3_Witness ==
    /\ Len(r_stack) >= 4
    /\ r_stack[1].fn = "split" /\ r_stack[2].fn = "split"
    /\ r_stack[Len(r_stack)].fn = "sense" /\ r_stack[Len(r_stack) - 1].fn = "sense"
    /\ r_stack[Len(r_stack) - 1].pc = "after2"

\* query.c:430-436: the sense literals query_test_sense splits on when it
\* takes the action sequences of zs one after the other
SenseLiterals(zs) ==
    {literal_init(Front(zs[j]), TRUE, SF, <<Last(zs[j])>>) :
        j \in {i \in 1..Len(zs) : Len(zs[i]) > 0}}

\* setup.h:79-81: the SF literal of each action of the query clause
ActionSenseLiterals(c) ==
    UNION {{literal_init(SubSeq(l.z, 1, i - 1), TRUE, SF, <<l.z[i]>>) : i \in 1..Len(l.z)}
              : l \in c}

\* a call of query_test_sense made by query_test_split has begun
SenseCalled ==
    /\ Len(r_stack) >= 2 /\ Top.fn = "sense" /\ Top.pc = "entry"
    /\ r_stack[Len(r_stack) - 1].fn = "split"

\* C22: the sense literals query_test_sense can split on for the clause c
\* are the literals SF(a1...a(i-1), ai) of every action ai of every literal
\* of c, the last action included.
C22_SenseSplitsCoverEveryAction ==
    SenseCalled => (SenseLiterals(r_zs) = ActionSenseLiterals(r_c))

\* C24: a call of query_test_split or query_test_sense returns with the
\* split set it was entered with.
C24_SplitSetRestored ==
    (r_stack # <<>> /\ Top.pc = "entry") =>
        IF Top.fn = "sense"
        THEN query_test_sense(r_setup, r_split, r_pel, r_c, r_zs).split = r_split
        ELSE query_test_split(r_setup, r_split, r_pel, r_c, Top.k).split = r_split

\* C25: the two recursive calls of one call of query_test_sense begin with
\* the same zs: the zs of the caller less the sequence the caller removed.
C25_BothBranchesSameZs ==
    \A i \in 1..(Len(r_stack) - 1) :
        (/\ r_stack[i].fn = "sense" /\ r_stack[i + 1].fn = "sense"
         /\ r_stack[i].pc \in {"after1", "after2"}
         /\ r_stack[i + 1].pc = "entry")
            => (r_stack[i + 1].nzs = r_stack[i].nzs - 1 /\ Len(r_zs) = r_stack[i + 1].nzs)

-----------------------------------------------------------------------------
(* Symbols and interned terms (term.h) *)

\* Symbol::Factory::CreateName / CreateVariable / CreateFunction
CreateName(id, sort) == [id |-> id * 4 + 0, sort |-> sort, arity |-> 0]
CreateVariable(id, sort) == [id |-> id * 4 + 1, sort |-> sort, arity |-> 0]
CreateFunction(id, sort, arity) == [id |-> id * 4 + 2, sort |-> sort, arity |-> arity]

SymbolIsName(sym) == sym.id % 4 = 0
SymbolIsVariable(sym) == sym.id % 4 = 1
SymbolIsFunction(sym) == sym.id % 4 = 2
SortRigid(sort) == sort % 2 = 1

\* the symbols terms are built from: two names, a variable, a unary
\* function of a non-rigid sort and a binary function of a rigid sort
Symbols ==
    { CreateName(1, 0), CreateName(2, 0), CreateVariable(1, 0),
      CreateFunction(1, 0, 1), CreateFunction(2, 1, 2) }

\* the calls of CreateTerm one run makes
MaxCalls == 4

\* Term::name()
TermName(id) == id % 2 = 1

\* Term::Factory::get
TermGet(id) ==
    IF id % 2 = 1 THEN name_heap_[(id \div 2)]
    ELSE variable_and_function_heap_[(id \div 2)]

\* Term::function()
TermFunction(id) == SymbolIsFunction(TermGet(id).symbol)

\* a comparison that leaves the arguments out
DataEqSymbolOnly(d1, d2) == d1.symbol.id = d2.symbol.id

\* Data::operator== : Symbol::operator== compares the symbol ids
DataEq(d1, d2) == d1.symbol.id = d2.symbol.id /\ d1.args = d2.args

\* the id of a newly interned term: (heap->size() << 1) | name
NewTermId(size, name) == size * 2 + (IF name THEN 1 ELSE 0)

\* the terms created so far
TermsCreated == {t_calls[i].id : i \in 1..Len(t_calls)}

\* the tuples of n terms created so far
RECURSIVE ArgVectors(_)
ArgVectors(n) ==
    IF n = 0 THEN {<<>>}
    ELSE {Append(v, t) : v \in ArgVectors(n - 1), t \in TermsCreated}

TermInit ==
    /\ name_heap_ = <<>>
    /\ variable_and_function_heap_ = <<>>
    /\ memory_ = [srt \in Sorts |-> {}]
    /\ t_calls = <<>>
    /\ lt_call = NoCall
    /\ QueryIdle /\ SplitIdle /\ RunIdle /\ ClauseIdle

\* Term::Factory::CreateTerm(symbol, args), term.h:300-320
CreateTerm(symbol, args) ==
    LET d == [symbol |-> symbol, args |-> args]
        s == memory_[symbol.sort]
        found == {e \in s : DataEq(e.d, d)}
    IN IF found = {}
       THEN LET name == \/ SymbolIsName(symbol)
                        \/ /\ SortRigid(symbol.sort)
                           /\ SymbolIsFunction(symbol)
                           /\ \A j \in 1..Len(args) :
                                 TermName(args[j]) /\ ~TermFunction(args[j])
                size == 1 + (IF name THEN Len(name_heap_)
                             ELSE Len(variable_and_function_heap_))
                id == NewTermId(size, name)
            IN /\ IF name
                  THEN /\ name_heap_' = Append(name_heap_, d)
                       /\ UNCHANGED variable_and_function_heap_
                  ELSE /\ variable_and_function_heap_' = Append(variable_and_function_heap_, d)
                       /\ UNCHANGED name_heap_
               /\ memory_' = [memory_ EXCEPT ![symbol.sort] = s \cup {[d |-> d, id |-> id]}]
               /\ t_calls' = Append(t_calls, [symbol |-> symbol, args |-> args, id |-> id])
       ELSE /\ \E e \in found :
                 t_calls' = Append(t_calls, [symbol |-> symbol, args |-> args, id |-> e.id])
            /\ UNCHANGED <<name_heap_, variable_and_function_heap_, memory_>>

TF_CreateTerm ==
    /\ Len(t_calls) < MaxCalls
    /\ \E symbol \in Symbols : \E args \in ArgVectors(symbol.arity) :
          CreateTerm(symbol, args)
    /\ UNCHANGED notTerm

TermNext == TF_CreateTerm

SpecTerm == TermInit /\ [][TermNext]_vars

\* C4: two calls of CreateTerm return the same term iff they were given the
\* same symbol and the same argument terms; no returned term is null (id 0);
\* symbol() and args() of a returned term are those it was created with.
C4_TermInterning ==
    /\ \A i, j \in 1..Len(t_calls) :
          (t_calls[i].id = t_calls[j].id) <=>
              (t_calls[i].symbol = t_calls[j].symbol /\ t_calls[i].args = t_calls[j].args)
    /\ \A i \in 1..Len(t_calls) :
          /\ t_calls[i].id # 0
          /\ TermGet(t_calls[i].id).symbol = t_calls[i].symbol
          /\ TermGet(t_calls[i].id).args = t_calls[i].args

\* the same function term with an argument created twice, between other terms
C4_Witness ==
    /\ Len(t_calls) = 4
    /\ t_calls[2].args # <<>>
    /\ t_calls[4].symbol = t_calls[2].symbol /\ t_calls[4].args = t_calls[2].args
    /\ t_calls[4].id = t_calls[2].id
    /\ t_calls[3].id # t_calls[2].id

\* C21: every term CreateTerm returns whose symbol is a function of a rigid
\* sort and whose arguments all are names (Term::name() holds of each, also
\* of an argument that is itself a function term of a rigid sort) is a name.
C21_NamenessPropagates ==
    \A i \in 1..Len(t_calls) :
        (/\ SymbolIsFunction(t_calls[i].symbol)
         /\ SortRigid(t_calls[i].symbol.sort)
         /\ \A j \in 1..Len(t_calls[i].args) : TermName(t_calls[i].args[j]))
            => TermName(t_calls[i].id)

-----------------------------------------------------------------------------
(* Literals over interned terms (literal.h).  A literal is the record      *)
(* [pos, lhs, rhs] of the fields packed into data_; term ids stay below    *)
(* 2^31, so the packing loses nothing.                                     *)

\* Term::sort, Term::variable
TermSort(id) == TermGet(id).symbol.sort
TermVariable(id) == SymbolIsVariable(TermGet(id).symbol)

\* Term::ground
RECURSIVE TermGround(_)
TermGround(id) ==
    \/ TermName(id)
    \/ /\ TermFunction(id)
       /\ \A j \in 1..Len(TermGet(id).args) : TermGround(TermGet(id).args[j])

\* Term::primitive
TermPrimitive(id) ==
    /\ ~SortRigid(TermSort(id)) /\ TermFunction(id)
    /\ \A j \in 1..Len(TermGet(id).args) : TermName(TermGet(id).args[j])

\* Term::quasi_name
TermQuasiName(id) ==
    \/ ~TermFunction(id)
    \/ /\ SortRigid(TermSort(id))
       /\ \A j \in 1..Len(TermGet(id).args) : ~TermFunction(TermGet(id).args[j])

\* Term::quasi_primitive
TermQuasiPrimitive(id) ==
    /\ ~SortRigid(TermSort(id)) /\ TermFunction(id)
    /\ \A j \in 1..Len(TermGet(id).args) : TermQuasiName(TermGet(id).args[j])

\* the two terms in the order given
OrderAsGiven(lhs, rhs) == <<lhs, rhs>>

\* Literal::Literal, first step: if (!(lhs < rhs)) swap
OrderById(lhs, rhs) == IF ~(lhs < rhs) THEN <<rhs, lhs>> ELSE <<lhs, rhs>>

\* Literal::Literal(pos, lhs, rhs)
Literal(pos, lhs, rhs) ==
    LET s1 == OrderById(lhs, rhs)
        s2 == IF \/ ~TermFunction(s1[1]) /\ TermFunction(s1[2])
                 \/ TermQuasiPrimitive(s1[2])
              THEN <<s1[2], s1[1]>> ELSE s1
    IN [pos |-> pos, lhs |-> s2[1], rhs |-> s2[2]]

\* Literal::flip, Literal::dual
LiteralFlip(l) == Literal(~l.pos, l.lhs, l.rhs)
LiteralDual(l) == Literal(l.pos, l.rhs, l.lhs)

\* Literal::ground, Literal::primitive, Literal::quasi_primitive
LiteralGround(l) == TermGround(l.lhs) /\ TermGround(l.rhs)
LiteralPrimitive(l) == TermPrimitive(l.lhs) /\ TermName(l.rhs)
LiteralQuasiPrimitive(l) == TermQuasiPrimitive(l.lhs) /\ TermQuasiName(l.rhs)

\* valid() without the case of different sorts
LiteralValidSameSort(l) ==
    \/ l.pos /\ l.lhs = l.rhs
    \/ ~l.pos /\ TermName(l.lhs) /\ TermName(l.rhs) /\ l.lhs # l.rhs

\* Literal::valid
LiteralValid(l) ==
    \/ l.pos /\ l.lhs = l.rhs
    \/ ~l.pos /\ TermName(l.lhs) /\ TermName(l.rhs) /\ l.lhs # l.rhs
    \/ ~l.pos /\ TermSort(l.lhs) # TermSort(l.rhs)

\* Literal::unsatisfiable
LiteralUnsatisfiable(l) ==
    \/ ~l.pos /\ l.lhs = l.rhs
    \/ l.pos /\ TermName(l.lhs) /\ TermName(l.rhs) /\ l.lhs # l.rhs
    \/ l.pos /\ TermSort(l.lhs) # TermSort(l.rhs)

\* Literal::Eq(a, b) or Literal::Neq(a, b), and the same with (b, a), on
\* terms the factory has created
LT_Literal ==
    /\ \E pos \in BOOLEAN, a \in TermsCreated, b \in TermsCreated :
          lt_call' = [pos |-> pos, a |-> a, b |-> b,
                      ab |-> Literal(pos, a, b), ba |-> Literal(pos, b, a)]
    /\ UNCHANGED notLit

LiteralNext == TF_CreateTerm \/ LT_Literal

SpecLiteral == TermInit /\ [][LiteralNext]_vars

\* C17: a literal built from two non-null terms holds these terms and the
\* sign and is canonical: without a function the smaller id is lhs; with one
\* function the function is lhs; with two functions of which one is
\* quasi-primitive that one is lhs; rhs is a function only if lhs is one.
C17_LiteralCanonical ==
    (lt_call # NoCall) =>
        LET l == lt_call.ab
            a == lt_call.a
            b == lt_call.b
        IN /\ l.pos = lt_call.pos /\ {l.lhs, l.rhs} = {a, b}
           /\ (~TermFunction(a) /\ ~TermFunction(b)) => l.lhs <= l.rhs
           /\ (TermFunction(a) # TermFunction(b)) => TermFunction(l.lhs)
           /\ (/\ TermFunction(a) /\ TermFunction(b)
               /\ TermQuasiPrimitive(a) # TermQuasiPrimitive(b))
                  => TermQuasiPrimitive(l.lhs)
           /\ TermFunction(l.rhs) => TermFunction(l.lhs)

\* two functions, the quasi-primitive one with the larger id, which is lhs
C17_Witness ==
    /\ lt_call # NoCall
    /\ TermFunction(lt_call.a) /\ TermFunction(lt_call.b)
    /\ TermQuasiPrimitive(lt_call.a) /\ ~TermQuasiPrimitive(lt_call.b)
    /\ lt_call.a > lt_call.b
    /\ lt_call.ab.lhs = lt_call.a

\* C18: the literal built from (a, b) is the literal built from (b, a);
\* dual() returns the literal itself; flip() changes the sign only;
\* primitive(), quasi_primitive() and ground() are the same after dual() and
\* after flip().
C18_ArgumentOrderIrrelevant ==
    (lt_call # NoCall) =>
        LET l == lt_call.ab IN
        /\ lt_call.ab = lt_call.ba
        /\ LiteralDual(l) = l
        /\ LiteralFlip(l) = [l EXCEPT !.pos = ~l.pos]
        /\ \A m \in {LiteralDual(l), LiteralFlip(l)} :
              /\ LiteralPrimitive(m) = LiteralPrimitive(l)
              /\ LiteralQuasiPrimitive(m) = LiteralQuasiPrimitive(l)
              /\ LiteralGround(m) = LiteralGround(l)

\* a quasi-primitive literal built from a name and a function with a variable
C18_Witness ==
    /\ lt_call # NoCall
    /\ lt_call.a # lt_call.b
    /\ TermName(lt_call.a) /\ TermFunction(lt_call.b) /\ ~TermGround(lt_call.b)
    /\ LiteralQuasiPrimitive(lt_call.ab) /\ ~LiteralPrimitive(lt_call.ab)
    /\ lt_call.ab = lt_call.ba

\* C19: a literal is valid iff its flip is unsatisfiable; no literal is both;
\* t = t is valid; n = n' for distinct names and an equality between terms
\* of different sorts are unsatisfiable.
C19_ValidUnsatisfiableDual ==
    (lt_call # NoCall) =>
        LET l == lt_call.ab IN
        /\ LiteralValid(l) <=> LiteralUnsatisfiable(LiteralFlip(l))
        /\ ~(LiteralValid(l) /\ LiteralUnsatisfiable(l))
        /\ (l.pos /\ lt_call.a = lt_call.b) => LiteralValid(l)
        /\ (/\ l.pos /\ TermName(lt_call.a) /\ TermName(lt_call.b)
            /\ lt_call.a # lt_call.b) => LiteralUnsatisfiable(l)
        /\ (l.pos /\ TermSort(lt_call.a) # TermSort(lt_call.b)) => LiteralUnsatisfiable(l)

\* an inequality between terms of different sorts, neither of them a name
C19_Witness ==
    /\ lt_call # NoCall
    /\ ~lt_call.pos
    /\ TermSort(lt_call.a) # TermSort(lt_call.b)
    /\ ~TermName(lt_call.a) /\ ~TermName(lt_call.b)
    /\ LiteralValid(lt_call.ab) /\ LiteralUnsatisfiable(LiteralFlip(lt_call.ab))

\* the number of quantifiers (EX nodes) of a query
RECURSIVE NumQuantifiers(_)
NumQuantifiers(phi) ==
    CASE phi.type \in {"EQ", "NEQ", "LIT"} -> 0
      [] phi.type \in {"OR", "AND"} -> NumQuantifiers(phi.phi1) + NumQuantifiers(phi.phi2)
      [] phi.type \in {"NEG", "ACT"} -> NumQuantifiers(phi.phi)
      [] phi.type = "EX" -> 1 + NumQuantifiers(ExApply(phi, 1))

\* C13: the variable count query_test passes to bat_hplus is the number of
\* quantifiers of the query, and hplus is not empty when the query has a
\* quantifier.
C13_HplusHasNamePerQuantifier ==
    (q_pc = "hplus") =>
        /\ query_n_vars(q_phi0) = NumQuantifiers(q_phi0)
        /\ (NumQuantifiers(q_phi0) > 0) => (Len(q_hplus) > 0)

\* every clause of cnf has a literal that holds in the interpretation I
CnfHolds(cnf, I) ==
    \A c \in cnf : \E l \in c : (literal_atom(l) \in I) <=> l.sign

\* C11: the clauses query_cnf returns for a formula over LIT, OR, AND hold in
\* exactly the interpretations in which the formula holds; for a conjunction
\* they are the union of the clauses of the conjuncts, for a disjunction the
\* pairwise unions of the clauses of the disjuncts.
C11_CnfByDistribution ==
    (q_pc = "loop") =>
        LET cnf == Range(q_cnf) IN
        /\ \A I \in SUBSET AtomsOf(q_phi, <<>>, {}) :
              Eval(q_phi, <<>>, I, {}) <=> CnfHolds(cnf, I)
        /\ (q_phi.type = "AND") =>
              cnf = query_cnf(q_phi.phi1) \cup query_cnf(q_phi.phi2)
        /\ (q_phi.type = "OR") =>
              cnf = {c1 \cup c2 : c1 \in query_cnf(q_phi.phi1),
                                  c2 \in query_cnf(q_phi.phi2)}

\* a disjunction of two conjunctions was distributed into several clauses
C11_Witness ==
    /\ q_pc = "loop"
    /\ q_phi.type = "OR"
    /\ q_phi.phi1.type = "AND" /\ q_phi.phi2.type = "AND"
    /\ Len(q_cnf) >= 3

-----------------------------------------------------------------------------
(* ground_clauses (clause.c).  A universal clause is [vars, cond, clause]:  *)
(* its variables (negative numbers), a guard given as the pairs of terms    *)
(* that must differ, and its literals; univ_clause(varmap) is the callback  *)
(* that returns the clause under varmap, or NULL when the guard fails.      *)

\* a variable or name under a varmap
varmap_lookup(varmap, t) == IF t \in DOMAIN varmap THEN varmap[t] ELSE t

\* clause_substitute (setup.h:164)
clause_substitute(c, varmap) ==
    {[l EXCEPT !.args = [i \in 1..Len(l.args) |-> varmap_lookup(varmap, l.args[i])]] : l \in c}

\* the guard of the universal clause uc holds under varmap
GuardHolds(uc, varmap) ==
    \A p \in uc.cond : varmap_lookup(varmap, p[1]) # varmap_lookup(varmap, p[2])

\* generate_varmaps: the clauses added to the setup from position i on
RECURSIVE generate_varmaps(_, _, _, _)
generate_varmaps(varmap, uc, ns, i) ==
    IF i < Len(uc.vars)
    THEN UNION {generate_varmaps((uc.vars[i + 1] :> ns[j]) @@ varmap, uc, ns, i + 1)
                    : j \in 1..Len(ns)}
    ELSE IF GuardHolds(uc, varmap) THEN {clause_substitute(uc.clause, varmap)} ELSE {}

\* ground_clauses: box_clauses is filled by generate_varmaps (clause.c:33-46);
\* the loops over box_clauses, zs and the prefixes of z (clause.c:48-56)
\* compute z_prefix and add nothing to setup, which is returned as
\* setup_init() made it
ground_clauses(univ_clauses, zs, ns) ==
    [box_clauses |->
         UNION {generate_varmaps(<<>>, univ_clauses[i], ns, 0) : i \in 1..Len(univ_clauses)},
     setup |-> {}]

\* the universal clauses, name sets and prefix sets ground_clauses is called on
GroundUnivClauses ==
    { [vars |-> <<>>, cond |-> {}, clause |-> {P(1)}],
      [vars |-> <<-1>>, cond |-> {<<-1, 1>>}, clause |-> {literal_flip(P(-1)), Q(-1)}],
      [vars |-> <<-1, -2>>, cond |-> {<<-1, -2>>}, clause |-> {P(-1), Q(-2)}] }

GroundInputs ==
    {<<>>} \cup {<<u>> : u \in GroundUnivClauses}
        \cup {<<u, v>> : u \in GroundUnivClauses, v \in GroundUnivClauses}

GroundZs == {SortedVecs({<<>>}), SortedVecs({<<>>, <<1>>}), SortedVecs({<<>>, <<1>>, <<1, 2>>})}

GroundInit ==
    /\ g_univ_clauses \in GroundInputs
    /\ g_zs \in GroundZs
    /\ g_ns \in {SortedSeq(S) : S \in SUBSET Names}
    /\ g_box = {} /\ g_ret = {} /\ g_pc = "call"
    /\ cf_clauses = <<>> /\ cf_k = 0
    /\ QueryIdle /\ SplitIdle /\ RunIdle /\ TermIdle /\ LaterIdle

GC_ground_clauses ==
    /\ g_pc = "call"
    /\ LET r == ground_clauses(g_univ_clauses, g_zs, g_ns) IN
          /\ g_box' = r.box_clauses
          /\ g_ret' = r.setup
    /\ g_pc' = "done"
    /\ UNCHANGED <<g_univ_clauses, g_zs, g_ns>>
    /\ UNCHANGED notGround

SpecGround == GroundInit /\ [][GC_ground_clauses]_vars

\* the assignments of the variables of uc to names of ns
VarAssignments(uc, ns) == [Range(uc.vars) -> Range(ns)]

\* C12: the setup ground_clauses returns contains, for every universal
\* clause, every assignment of its variables to names of ns that satisfies
\* the guard and every prefix z of zs, the ground clause with z prepended to
\* every literal.
C12_GroundsBoxedClauses ==
    (g_pc = "done") =>
        \A i \in 1..Len(g_univ_clauses) :
            \A sigma \in VarAssignments(g_univ_clauses[i], g_ns) :
                GuardHolds(g_univ_clauses[i], sigma) =>
                    \A j \in 1..Len(g_zs) :
                        {literal_prepend_all(g_zs[j], l) :
                             l \in clause_substitute(g_univ_clauses[i].clause, sigma)}
                            \in g_ret

-----------------------------------------------------------------------------
(* Literals (literal.h) and clauses (clause.h).  clause.h is written over  *)
(* the type Lit; its operations are those of Literal in literal.h.  A      *)
(* literal is [pos, lhs, rhs] with lhs and rhs term ids.                   *)

\* the default-constructed literal: data_ = 0
LitNull == [pos |-> FALSE, lhs |-> 0, rhs |-> 0]

\* Literal::Eq / Literal::Neq on a primitive term t and a name n
LitEq(t, n) == [pos |-> TRUE, lhs |-> t, rhs |-> n]
LitNeq(t, n) == [pos |-> FALSE, lhs |-> t, rhs |-> n]

\* a validity test that looks at the left-hand sides only
LitValidSameLhs(a, b) == a.lhs = b.lhs

\* Literal::Valid(a, b)
LitValid(a, b) ==
    \/ a.lhs = b.lhs /\ a.pos # b.pos /\ a.rhs = b.rhs
    \/ a.lhs = b.lhs /\ ~a.pos /\ ~b.pos /\ TermName(a.rhs) /\ TermName(b.rhs)
           /\ a.rhs # b.rhs

\* a subsumption test that forgets that the names must differ
LitProperlySubsumesAnyName(a, b) ==
    a.lhs = b.lhs /\ a.pos /\ ~b.pos /\ TermName(a.rhs) /\ TermName(b.rhs)

\* Literal::ProperlySubsumes(a, b)
LitProperlySubsumes(a, b) ==
    a.lhs = b.lhs /\ a.pos /\ ~b.pos /\ TermName(a.rhs) /\ TermName(b.rhs)
        /\ a.rhs # b.rhs

\* Literal::Subsumes(a, b)
LitSubsumes(a, b) == a = b \/ LitProperlySubsumes(a, b)

\* Clause::Normalize, first inner loop (clause.h:47-56): as[i2] against the
\* literals kept so far; indices count from 0 as in the code
RECURSIVE KeptScan(_, _, _, _)
KeptScan(as, i1, i2, j) ==
    IF j >= i1 THEN "none"
    ELSE IF LitValid(as[i2 + 1], as[j + 1]) THEN "valid"
    ELSE IF LitSubsumes(as[i2 + 1], as[j + 1]) THEN "drop"
    ELSE KeptScan(as, i1, i2, j + 1)

\* a second inner loop that never drops a literal
SubsumesLaterNever(size, as, i2) == FALSE

\* Clause::Normalize, second inner loop (clause.h:57-62)
SubsumesLater(size, as, i2) ==
    \E j \in (i2 + 1)..(size - 1) : LitProperlySubsumes(as[i2 + 1], as[j + 1])

\* Clause::Normalize: the while loop from (i1, i2); returns the size (or -1)
\* and the array
RECURSIVE NormalizeFrom(_, _, _, _)
NormalizeFrom(size, as, i1, i2) ==
    IF i2 >= size THEN [n |-> i1, as |-> as]
    ELSE LET k == KeptScan(as, i1, i2, 0) IN
         IF k = "valid" THEN [n |-> -1, as |-> [as EXCEPT ![1] = LitNull]]
         ELSE IF k = "drop" THEN NormalizeFrom(size, as, i1, i2 + 1)
         ELSE IF SubsumesLater(size, as, i2) THEN NormalizeFrom(size, as, i1, i2 + 1)
         ELSE NormalizeFrom(size, [as EXCEPT ![i1 + 1] = as[i2 + 1]], i1 + 1, i2 + 1)

Normalize(size, as) == NormalizeFrom(size, as, 0, 0)

\* Clause::Clause(size, first, guaranteed_normalized = false); the literals
\* past h_.size are dropped from the record
Clause(size, first) ==
    LET r == Normalize(size, first)
        n == IF r.n >= 0 THEN r.n ELSE 1
    IN [size |-> n, as |-> SubSeq(r.as, 1, n)]

\* Clause::Normalized()
Normalized(c) ==
    \A i \in 1..c.size : \A j \in 1..c.size :
        (i # j) => (~LitValid(c.as[i], c.as[j]) /\ ~LitSubsumes(c.as[i], c.as[j]))

\* Clause::operator==: after the size test, a literal of c without an equal
\* in d leaves the inner loop and arrives at `next' like one with an equal
ClauseEq(c, d) ==
    IF c.size # d.size THEN FALSE
    ELSE \A i \in 1..c.size :
            IF \E j \in 1..d.size : c.as[i] = d.as[j] THEN TRUE ELSE TRUE

\* Clause::Subsumes
ClauseSubsumes(c, d) ==
    \A i \in 1..c.size : \E j \in 1..d.size : LitSubsumes(c.as[i], d.as[j])

\* the primitive terms and the names the literals are built from: terms of
\* the variable-and-function heap and of the name heap (term.h:312)
PrimTerms == {2, 4}
NameTerms == {3, 5, 7}

PrimLits ==
    {LitEq(t, n) : t \in PrimTerms, n \in NameTerms}
        \cup {LitNeq(t, n) : t \in PrimTerms, n \in NameTerms}

\* the literals handed to one New, and the clauses created in one run
MaxLits == 3
MaxClauses == 2

ClauseInit ==
    /\ cf_clauses = <<>>
    /\ cf_k = 0
    /\ g_univ_clauses = <<>> /\ g_zs = <<>> /\ g_ns = <<>>
    /\ g_box = {} /\ g_ret = {} /\ g_pc = "idle"
    /\ QueryIdle /\ SplitIdle /\ RunIdle /\ TermIdle /\ LaterIdle

\* Clause::Factory::New(k, as), clause.h:198-202
CF_New ==
    /\ Len(cf_clauses) < MaxClauses
    /\ \E k \in 0..MaxLits : \E as \in [1..k -> PrimLits] :
          /\ cf_clauses' = Append(cf_clauses, Clause(k, as))
          /\ cf_k' = k
    /\ UNCHANGED notClause

SpecClause == ClauseInit /\ [][CF_New]_vars

\* what a literal and a clause say under an interpretation I, which gives
\* each primitive term one name; the null literal stands for the valid clause
LitHolds(a, I) ==
    IF a = LitNull THEN TRUE
    ELSE IF a.pos THEN I[a.lhs] = a.rhs ELSE I[a.lhs] # a.rhs

ClauseHolds(c, I) == \E i \in 1..c.size : LitHolds(c.as[i], I)

Interpretations == [PrimTerms -> NameTerms]

ClauseLits(c) == {c.as[i] : i \in 1..c.size}

\* C5: c == d holds exactly when c and d contain the same literals
C5_EqualityIsSetEquality ==
    \A i, j \in 1..Len(cf_clauses) :
        ClauseEq(cf_clauses[i], cf_clauses[j])
            <=> (ClauseLits(cf_clauses[i]) = ClauseLits(cf_clauses[j]))

\* C6: every clause New builds is normalized
C6_FactoryClausesNormalized ==
    \A i \in 1..Len(cf_clauses) : Normalized(cf_clauses[i])

\* New was given three literals and kept two of them
C6_Witness ==
    /\ Len(cf_clauses) = 1
    /\ cf_k = 3
    /\ cf_clauses[1].size = 2
    /\ cf_clauses[1].as[1].lhs = cf_clauses[1].as[2].lhs

\* C7 as stated: c.Subsumes(d) implies that every interpretation that
\* satisfies d satisfies c
C7_SubsumesImpliesDEntailsC ==
    \A i, j \in 1..Len(cf_clauses) :
        ClauseSubsumes(cf_clauses[i], cf_clauses[j]) =>
            \A I \in Interpretations :
                ClauseHolds(cf_clauses[j], I) => ClauseHolds(cf_clauses[i], I)

\* C7 amended: c.Subsumes(d) implies that every interpretation that
\* satisfies c satisfies d
C7_SubsumesImpliesCEntailsD ==
    \A i, j \in 1..Len(cf_clauses) :
        ClauseSubsumes(cf_clauses[i], cf_clauses[j]) =>
            \A I \in Interpretations :
                ClauseHolds(cf_clauses[i], I) => ClauseHolds(cf_clauses[j], I)

\* a clause with an equality subsumes a different clause through an
\* inequality of the same term
C7_Witness ==
    /\ Len(cf_clauses) = 2
    /\ cf_clauses[1].size = 2 /\ cf_clauses[2].size = 2
    /\ ClauseLits(cf_clauses[1]) \cap ClauseLits(cf_clauses[2]) = {}
    /\ ClauseSubsumes(cf_clauses[1], cf_clauses[2])

\* the primitive literals of the clauses created so far
CreatedLits == UNION {ClauseLits(cf_clauses[i]) : i \in 1..Len(cf_clauses)} \ {LitNull}

\* C20: for primitive literals a and b, Subsumes(a, b) implies that
\* Valid(a, b) is false
C20_SubsumesExcludesValid ==
    \A a \in CreatedLits, b \in CreatedLits :
        LitSubsumes(a, b) => ~LitValid(a, b)

\* two unit clauses, the literal of the first properly subsuming the second's
C20_Witness ==
    /\ Len(cf_clauses) = 2
    /\ cf_clauses[1].size = 1 /\ cf_clauses[2].size = 1
    /\ LitProperlySubsumes(cf_clauses[1].as[1], cf_clauses[2].as[1])
    /\ ~LitValid(cf_clauses[1].as[1], cf_clauses[2].as[1])

-----------------------------------------------------------------------------
(* The clause arena: Clause::Factory over MemoryPool<unsigned int>         *)
(* (clause.h:181-272).  Sizes are counted in chunks of sizeof(unsigned     *)
(* int) = 4 bytes.                                                         *)

\* sizeof(T) for T = unsigned int, and the default pool size 1024 * 1024
SizeofChunk == 4
PoolChunks == 1048576

\* sizeof(Clause): the 4-byte header h_, padded to the alignment of Lit
SizeofClause == IF mp_sizeof_Lit > 4 THEN mp_sizeof_Lit ELSE 4

\* MemoryPool::bytes_to_chunks
bytes_to_chunks(n) == (n + SizeofChunk - 1) \div SizeofChunk

\* Clause::Factory::clause_size
clause_size(size) == bytes_to_chunks(SizeofClause + size * mp_sizeof_Lit)

\* MemoryPool::Capacitate: the capacity_ it leaves
RECURSIVE Capacitate(_, _)
Capacitate(capacity, n) ==
    IF n > capacity
    THEN LET g == (capacity \div 2) + (capacity \div 8) + 2
         IN Capacitate(capacity + (g - (g % 2)), n)
    ELSE capacity

\* MemoryPool::Free: the size_ it leaves
Free(size, r, k) == IF r + k = size THEN r ELSE size

\* the literals the clauses of the arena are made of, the literals handed
\* to one New, and the calls of New and Delete of one run
ArenaLits == {LitEq(2, 3), LitNeq(2, 3), LitEq(4, 5)}
MaxArenaLits == 2
MaxArenaCalls == 3

\* MemoryPool(): size_ = 1, capacity_ = 0, Capacitate(n)
ArenaInit ==
    /\ mp_sizeof_Lit \in {4, 8}
    /\ mp_capacity_ = Capacitate(0, PoolChunks)
    /\ mp_size_ = 1
    /\ mp_memory_ = {}
    /\ mp_log = <<>>
    /\ QueryIdle /\ SplitIdle /\ RunIdle /\ TermIdle /\ FactoryIdle
    /\ NormIdle /\ UnifyIdle /\ SetIdle /\ FormulaIdle

\* Clause::Factory::New(k, as): Allocate(clause_size(k)), then the clause is
\* constructed at the address of cr
AR_New ==
    /\ Len(mp_log) < MaxArenaCalls
    /\ \E k \in 0..MaxArenaLits : \E as \in [1..k -> ArenaLits] :
          LET cr == mp_size_ IN
          /\ mp_size_' = mp_size_ + clause_size(k)
          /\ mp_capacity_' = Capacitate(mp_capacity_, mp_size_')
          /\ mp_memory_' = {e \in mp_memory_ : e.cr # cr}
                               \cup {[cr |-> cr, c |-> Clause(k, as)]}
          /\ mp_log' = Append(mp_log, [op |-> "New", cr |-> cr, k |-> k, as |-> as,
                                       before |-> mp_size_, after |-> mp_size_'])
    /\ UNCHANGED mp_sizeof_Lit
    /\ UNCHANGED notArena

\* Clause::Factory::Delete(cr, k) for a clause New returned, with the k
\* given to that New
AR_Delete ==
    /\ Len(mp_log) < MaxArenaCalls
    /\ \E i \in 1..Len(mp_log) :
          /\ mp_log[i].op = "New"
          /\ mp_size_' = Free(mp_size_, mp_log[i].cr, mp_log[i].k)
          /\ mp_log' = Append(mp_log, [op |-> "Delete", cr |-> mp_log[i].cr,
                                       k |-> mp_log[i].k, as |-> <<>>,
                                       before |-> mp_size_, after |-> mp_size_'])
    /\ UNCHANGED <<mp_sizeof_Lit, mp_capacity_, mp_memory_>>
    /\ UNCHANGED notArena

ArenaNext == AR_New \/ AR_Delete

SpecArena == ArenaInit /\ [][ArenaNext]_vars

\* C26: a Delete(cr, k) that directly follows the New(k, lits) that returned
\* cr takes the high-water mark back to its value before that New; a Delete
\* of a chunk that does not end at the high-water mark leaves it unchanged.
C26_StackTopReclamation ==
    \A i \in 1..Len(mp_log) :
        mp_log[i].op = "Delete" =>
            /\ (/\ i > 1 /\ mp_log[i - 1].op = "New"
                /\ mp_log[i - 1].cr = mp_log[i].cr) =>
                    mp_log[i].after = mp_log[i - 1].before
            /\ (mp_log[i].cr + clause_size(mp_log[i].k) # mp_log[i].before) =>
                    mp_log[i].after = mp_log[i].before

-----------------------------------------------------------------------------
(* Clause::Normalize on every sequence of up to MaxLits primitive literals *)

NormInputs == UNION {[1..k -> PrimLits] : k \in 0..MaxLits}

NormInit ==
    /\ nz_as \in NormInputs
    /\ nz_c = [size |-> 0, as |-> <<>>]
    /\ nz_pc = "call"
    /\ QueryIdle /\ SplitIdle /\ RunIdle /\ TermIdle /\ FactoryIdle
    /\ ArenaIdle /\ UnifyIdle /\ SetIdle /\ FormulaIdle

\* new (address) Clause(k, as, false), clause.h:140-148
NZ_Clause ==
    /\ nz_pc = "call"
    /\ nz_c' = Clause(Len(nz_as), nz_as)
    /\ nz_pc' = "done"
    /\ UNCHANGED nz_as
    /\ UNCHANGED notNorm

SpecNorm == NormInit /\ [][NZ_Clause]_vars

\* an interpretation gives each primitive term a name: one of the names of
\* the literals or another name
NormInterpretations == [PrimTerms -> NameTerms \cup {Max(NameTerms) + 2}]

\* C27: the clause Normalize leaves is equivalent to the disjunction of the
\* literals given (the unit clause of the null literal read as true), and it
\* is that unit clause exactly when two of the literals given are jointly
\* valid.
C27_NormalizePreservesMeaning ==
    nz_pc = "done" =>
        /\ \A I \in NormInterpretations :
              (\E i \in 1..Len(nz_as) : LitHolds(nz_as[i], I)) <=> ClauseHolds(nz_c, I)
        /\ (nz_c.size = 1 /\ nz_c.as[1] = LitNull)
              <=> (\E i, j \in 1..Len(nz_as) : LitValid(nz_as[i], nz_as[j]))

\* three literals of one term are normalized to two: an equality was dropped
\* because an inequality of another name stays
C27_Witness ==
    /\ nz_pc = "done"
    /\ Len(nz_as) = 3 /\ nz_c.size = 2
    /\ \E i \in 1..3 : nz_as[i].pos /\ nz_as[i] \notin ClauseLits(nz_c)
    /\ \E i \in 1..2 : ~nz_c.as[i].pos

-----------------------------------------------------------------------------
(* Unification of interned terms (term.h:346-428).  A substitution is the  *)
(* vector subs_ of pairs <<old, sub>>; Maybe<Term> is [yes, val].          *)

kUnifyLeft == 1
kUnifyRight == 2
kOccursCheck == 16

\* config & flag != 0, for a flag that is a power of two
HasFlag(config, flag) == (config \div flag) % 2 = 1

\* Term::Substitution::operator(): the first pair whose first part is t
SubstitutionApply(sub, t) ==
    LET hits == {i \in 1..Len(sub) : sub[i][1] = t} IN
    IF hits = {} THEN [yes |-> FALSE, val |-> 0]
    ELSE [yes |-> TRUE, val |-> sub[CHOOSE i \in hits : \A j \in hits : i <= j][2]]

\* Term::Substitution::Add: [ok, sub]
SubstitutionAdd(sub, old, new) ==
    LET bef == SubstitutionApply(sub, old) IN
    IF ~bef.yes THEN [ok |-> TRUE, sub |-> Append(sub, <<old, new>>)]
    ELSE [ok |-> bef.val = new, sub |-> sub]

\* Term::Mentions
RECURSIVE TermMentions(_, _)
TermMentions(t, v) ==
    t = v \/ \E j \in 1..Len(TermGet(t).args) : TermMentions(TermGet(t).args[j], v)

\* term.h:403-404: the term t of the side `flag' after the lookup in sub
UnifyLookup(config, flag, sub, t) ==
    IF HasFlag(config, flag) /\ SubstitutionApply(sub, t).yes
    THEN SubstitutionApply(sub, t).val ELSE t

\* Term::Unify<config>(l, r, sub): [ok, sub]; UnifyArgs is the loop over the
\* arguments from index i (counted from 1)
RECURSIVE Unify(_, _, _, _)
RECURSIVE UnifyArgs(_, _, _, _, _)
UnifyArgs(config, l, r, sub, i) ==
    IF i > TermGet(l).symbol.arity THEN [ok |-> TRUE, sub |-> sub]
    ELSE LET u == Unify(config, TermGet(l).args[i], TermGet(r).args[i], sub)
         IN IF ~u.ok THEN [ok |-> FALSE, sub |-> u.sub]
            ELSE UnifyArgs(config, l, r, u.sub, i + 1)

Unify(config, l0, r0, sub) ==
    IF l0 = r0 THEN [ok |-> TRUE, sub |-> sub]
    ELSE
    LET l == UnifyLookup(config, kUnifyLeft, sub, l0)
        r == UnifyLookup(config, kUnifyRight, sub, r0)
    IN IF TermSort(l) # TermSort(r) THEN [ok |-> FALSE, sub |-> sub]
       ELSE IF TermGet(l).symbol.id = TermGet(r).symbol.id
       THEN UnifyArgs(config, l, r, sub, 1)
       ELSE IF /\ TermVariable(l) /\ HasFlag(config, kUnifyLeft)
               /\ SubstitutionAdd(sub, l, r).ok
       THEN [ok |-> ~HasFlag(config, kOccursCheck) \/ ~TermMentions(r, l),
             sub |-> SubstitutionAdd(sub, l, r).sub]
       ELSE IF /\ TermVariable(r) /\ HasFlag(config, kUnifyRight)
               /\ SubstitutionAdd(sub, r, l).ok
       THEN [ok |-> ~HasFlag(config, kOccursCheck) \/ ~TermMentions(l, r),
             sub |-> SubstitutionAdd(sub, r, l).sub]
       ELSE [ok |-> FALSE, sub |-> sub]

\* the symbols of the terms unified: two variables, a name and a binary
\* function, all of one non-rigid sort
UnifyX == CreateVariable(1, 0)
UnifyY == CreateVariable(2, 0)
UnifyN == CreateName(1, 0)
UnifyF == CreateFunction(3, 0, 2)

\* the configurations Unify is instantiated with
UnifyConfigs ==
    { kUnifyLeft, kUnifyRight, kUnifyLeft + kUnifyRight,
      kUnifyLeft + kOccursCheck, kUnifyLeft + kUnifyRight + kOccursCheck }

\* the calls of CreateTerm for terms of UnifyF
MaxUnifyCalls == 5

\* the factory after CreateTerm(x), CreateTerm(y), CreateTerm(n)
UnifyInit ==
    LET dx == [symbol |-> UnifyX, args |-> <<>>]
        dy == [symbol |-> UnifyY, args |-> <<>>]
        dn == [symbol |-> UnifyN, args |-> <<>>]
    IN /\ variable_and_function_heap_ = <<dx, dy>>
       /\ name_heap_ = <<dn>>
       /\ memory_ = [srt \in Sorts |->
                        IF srt = 0
                        THEN { [d |-> dx, id |-> NewTermId(1, FALSE)],
                               [d |-> dy, id |-> NewTermId(2, FALSE)],
                               [d |-> dn, id |-> NewTermId(1, TRUE)] }
                        ELSE {}]
       /\ t_calls = << [symbol |-> UnifyX, args |-> <<>>, id |-> NewTermId(1, FALSE)],
                       [symbol |-> UnifyY, args |-> <<>>, id |-> NewTermId(2, FALSE)],
                       [symbol |-> UnifyN, args |-> <<>>, id |-> NewTermId(1, TRUE)] >>
       /\ lt_call = NoCall
       /\ u_call = NoUnify
       /\ QueryIdle /\ SplitIdle /\ RunIdle /\ FactoryIdle /\ ArenaIdle /\ NormIdle
       /\ SetIdle /\ FormulaIdle

\* CreateTerm(f, {t1, t2}) for terms created before
UF_CreateTerm ==
    /\ Len(t_calls) < MaxUnifyCalls
    /\ u_call = NoUnify
    /\ \E args \in ArgVectors(UnifyF.arity) : CreateTerm(UnifyF, args)
    /\ UNCHANGED notTerm

\* Term::Unify<config>(l, r), term.h:424-428: from the empty substitution;
\* one call in a run
UF_Unify ==
    /\ u_call = NoUnify
    /\ \E config \in UnifyConfigs, l \in TermsCreated, r \in TermsCreated :
          LET u == Unify(config, l, r, <<>>) IN
          u_call' = [config |-> config, l |-> l, r |-> r, ok |-> u.ok, sub |-> u.sub]
    /\ UNCHANGED notUnify

UnifyNext == UF_CreateTerm \/ UF_Unify

SpecUnify == UnifyInit /\ [][UnifyNext]_vars

\* C23: when Unify runs with kUnifyLeft and without kUnifyRight from the
\* empty substitution and succeeds, every variable the substitution binds
\* occurs in the left term.
C23_LeftUnifyBindsLeftOnly ==
    (/\ u_call.ok
     /\ HasFlag(u_call.config, kUnifyLeft) /\ ~HasFlag(u_call.config, kUnifyRight))
        => \A i \in 1..Len(u_call.sub) : TermMentions(u_call.l, u_call.sub[i][1])

-----------------------------------------------------------------------------
(* Sorted sets (set.c) over vectors (vector.c).  A vector is a sequence;   *)
(* the indices of the code count from 0.  The elements are integers and    *)
(* the comparator is their difference.                                     *)

compar(l, r) == l - r

\* vector_get, vector_insert, vector_remove for an index within the bounds
vector_get(vec, index) == vec[index + 1]

vector_insert(vec, index, elem) ==
    SubSeq(vec, 1, index) \o <<elem>> \o SubSeq(vec, index + 1, Len(vec))

vector_remove(vec, index) ==
    SubSeq(vec, 1, index) \o SubSeq(vec, index + 2, Len(vec))

\* vector_append_all_range(vec, elems, from, to)
vector_append_all_range(vec, elems, from, to) == vec \o SubSeq(elems, from + 1, to)

\* search: the while loop from lo, hi
RECURSIVE SearchLoop(_, _, _, _)
SearchLoop(vec, obj, lo, hi) ==
    IF lo > hi THEN -1
    ELSE LET i == (lo + hi) \div 2
             cmp == compar(obj, vector_get(vec, i))
         IN IF cmp = 0 THEN i
            ELSE IF cmp < 0 THEN SearchLoop(vec, obj, lo, i - 1)
            ELSE SearchLoop(vec, obj, i + 1, hi)

search(vec, obj) == SearchLoop(vec, obj, 0, Len(vec) - 1)

\* insert_pos: the while loop from lo, hi
RECURSIVE InsertPosLoop(_, _, _, _)
InsertPosLoop(vec, obj, lo, hi) ==
    IF lo > hi THEN Len(vec)
    ELSE LET i == (lo + hi) \div 2
             cmp == compar(obj, vector_get(vec, i))
         IN IF cmp = 0 THEN -1
            ELSE IF cmp <= 0
            THEN IF i = 0 \/ ~(compar(obj, vector_get(vec, i - 1)) <= 0)
                 THEN i
                 ELSE InsertPosLoop(vec, obj, lo, i - 1)
            ELSE InsertPosLoop(vec, obj, i + 1, hi)

\* an insert position that is always the end of the vector
insert_pos_end(vec, obj) == Len(vec)

insert_pos(vec, obj) == InsertPosLoop(vec, obj, 0, Len(vec) - 1)

\* set_add, set_remove: [ret, vec]
set_add(vec, elem) ==
    LET i == insert_pos(vec, elem) IN
    IF i # -1 THEN [ret |-> TRUE, vec |-> vector_insert(vec, i, elem)]
    ELSE [ret |-> FALSE, vec |-> vec]

set_remove(vec, elem) ==
    LET i == search(vec, elem) IN
    IF i # -1 THEN [ret |-> TRUE, vec |-> vector_remove(vec, i)]
    ELSE [ret |-> FALSE, vec |-> vec]

\* set_remove_index: [ret, vec] with ret the element removed
set_remove_index(vec, index) ==
    [ret |-> vector_get(vec, index), vec |-> vector_remove(vec, index)]

set_singleton(elem) == set_add(<<>>, elem).vec

\* set_union: the while loop from i, j with the vector built so far
RECURSIVE UnionLoop(_, _, _, _, _)
UnionLoop(l, r, i, j, set) ==
    IF i < Len(l) /\ j < Len(r)
    THEN LET cmp == compar(vector_get(l, i), vector_get(r, j)) IN
         IF cmp < 0 THEN UnionLoop(l, r, i + 1, j, Append(set, vector_get(l, i)))
         ELSE IF cmp > 0 THEN UnionLoop(l, r, i, j + 1, Append(set, vector_get(r, j)))
         ELSE UnionLoop(l, r, i + 1, j + 1, Append(set, vector_get(l, i)))
    ELSE vector_append_all_range(vector_append_all_range(set, l, i, Len(l)), r, j, Len(r))

set_union(l, r) == UnionLoop(l, r, 0, 0, <<>>)

\* set_difference: the inner while loop from j: [skip, j]
RECURSIVE DifferenceInner(_, _, _, _)
DifferenceInner(l, r, i, j) ==
    IF j < Len(r)
    THEN LET cmp == compar(vector_get(l, i), vector_get(r, j)) IN
         IF cmp < 0 THEN [skip |-> FALSE, j |-> j]
         ELSE IF cmp > 0 THEN DifferenceInner(l, r, i, j + 1)
         ELSE [skip |-> TRUE, j |-> j]
    ELSE [skip |-> FALSE, j |-> j]

RECURSIVE DifferenceLoop(_, _, _, _, _)
DifferenceLoop(l, r, i, j, set) ==
    IF i < Len(l)
    THEN LET d == DifferenceInner(l, r, i, j) IN
         DifferenceLoop(l, r, i + 1, d.j,
                        IF d.skip THEN set ELSE Append(set, vector_get(l, i)))
    ELSE set

set_difference(l, r) == DifferenceLoop(l, r, 0, 0, <<>>)

RECURSIVE IntersectionLoop(_, _, _, _, _)
IntersectionLoop(l, r, i, j, set) ==
    IF i < Len(l) /\ j < Len(r)
    THEN LET cmp == compar(vector_get(l, i), vector_get(r, j)) IN
         IF cmp < 0 THEN IntersectionLoop(l, r, i + 1, j, set)
         ELSE IF cmp > 0 THEN IntersectionLoop(l, r, i, j + 1, set)
         ELSE IntersectionLoop(l, r, i + 1, j + 1, Append(set, vector_get(l, i)))
    ELSE set

set_intersection(l, r) == IntersectionLoop(l, r, 0, 0, <<>>)

\* the elements of the sets
NumElems == 4
Elems == 1..NumElems

\* two sets made by set_init or set_singleton
SetInit ==
    /\ st_sets \in [{"l", "r"} -> {<<>>} \cup {set_singleton(e) : e \in Elems}]
    /\ st_last = NoSetOp
    /\ QueryIdle /\ SplitIdle /\ RunIdle /\ TermIdle /\ FactoryIdle
    /\ ArenaIdle /\ NormIdle /\ UnifyIdle /\ FormulaIdle

SO_Add ==
    /\ \E t \in {"l", "r"}, e \in Elems :
          LET res == set_add(st_sets[t], e) IN
          /\ st_sets' = [st_sets EXCEPT ![t] = res.vec]
          /\ st_last' = [op |-> "add", t |-> t, elem |-> e, before |-> st_sets[t],
                         ret |-> res.ret]
    /\ UNCHANGED notSet

SO_Remove ==
    /\ \E t \in {"l", "r"}, e \in Elems :
          LET res == set_remove(st_sets[t], e) IN
          /\ st_sets' = [st_sets EXCEPT ![t] = res.vec]
          /\ st_last' = [op |-> "remove", t |-> t, elem |-> e, before |-> st_sets[t],
                         ret |-> res.ret]
    /\ UNCHANGED notSet

SO_RemoveIndex ==
    /\ \E t \in {"l", "r"} : \E index \in 0..(Len(st_sets[t]) - 1) :
          LET res == set_remove_index(st_sets[t], index) IN
          /\ st_sets' = [st_sets EXCEPT ![t] = res.vec]
          /\ st_last' = [op |-> "remove_index", t |-> t, elem |-> res.ret,
                         before |-> st_sets[t], ret |-> TRUE]
    /\ UNCHANGED notSet

\* set_union, set_difference, set_intersection of l and r; the set returned
\* takes the place of l or of r
SO_Union ==
    /\ \E t \in {"l", "r"} :
          /\ st_sets' = [st_sets EXCEPT ![t] = set_union(st_sets.l, st_sets.r)]
          /\ st_last' = [op |-> "union", t |-> t, elem |-> 0, before |-> st_sets[t],
                         ret |-> TRUE]
    /\ UNCHANGED notSet

SO_Difference ==
    /\ \E t \in {"l", "r"} :
          /\ st_sets' = [st_sets EXCEPT ![t] = set_difference(st_sets.l, st_sets.r)]
          /\ st_last' = [op |-> "difference", t |-> t, elem |-> 0, before |-> st_sets[t],
                         ret |-> TRUE]
    /\ UNCHANGED notSet

SO_Intersection ==
    /\ \E t \in {"l", "r"} :
          /\ st_sets' = [st_sets EXCEPT ![t] = set_intersection(st_sets.l, st_sets.r)]
          /\ st_last' = [op |-> "intersection", t |-> t, elem |-> 0, before |-> st_sets[t],
                         ret |-> TRUE]
    /\ UNCHANGED notSet

SetNext ==
    \/ SO_Add
    \/ SO_Remove
    \/ SO_RemoveIndex
    \/ SO_Union
    \/ SO_Difference
    \/ SO_Intersection

SpecSet == SetInit /\ [][SetNext]_vars

StrictlyIncreasing(vec) ==
    \A i \in 1..(Len(vec) - 1) : compar(vec[i], vec[i + 1]) < 0

\* C29: the vector of every set is strictly increasing under the comparator;
\* set_add returns true exactly when the element was absent, and leaves the
\* set as it was otherwise.
C29_SetsStaySorted ==
    /\ StrictlyIncreasing(st_sets.l) /\ StrictlyIncreasing(st_sets.r)
    /\ st_last.op = "add" =>
          /\ st_last.ret <=> (st_last.elem \notin Range(st_last.before))
          /\ ~st_last.ret => (st_sets[st_last.t] = st_last.before)
          /\ Range(st_sets[st_last.t]) = Range(st_last.before) \cup {st_last.elem}

\* set_add has put an element between two others
C29_Witness ==
    /\ st_last.op = "add" /\ st_last.ret
    /\ Len(st_sets[st_last.t]) = 4
    /\ st_sets[st_last.t][3] = st_last.elem

-----------------------------------------------------------------------------
(* Formulas in Polish notation and their Readers (formula.h).  es_ is a    *)
(* sequence of elements; an iterator is an index into it, end() the index  *)
(* after the last element.  A Reader is [begin, end] over one list.        *)

Nothing == [yes |-> FALSE, val |-> 0]
Just(v) == [yes |-> TRUE, val |-> v]

\* Element::Clause, Element::Not, Element::Or, Element::Exists
ElementClause(c) == [type |-> "kClause", clause |-> Just(c), var |-> Nothing]
ElementNot == [type |-> "kNot", clause |-> Nothing, var |-> Nothing]
ElementOr == [type |-> "kOr", clause |-> Nothing, var |-> Nothing]
ElementExists(x) == [type |-> "kExists", clause |-> Nothing, var |-> Just(x)]

\* Element::operator==
ElementEq(e, f) ==
    /\ e.type = f.type
    /\ (e.type # "kClause" \/ e.clause = f.clause)
    /\ (e.type # "kExists" \/ e.var = f.var)

\* Formula::operator==: es_ == phi.es_
FormulaEq(phi, psi) ==
    Len(phi) = Len(psi) /\ \A i \in 1..Len(phi) : ElementEq(phi[i], psi[i])

\* a count that takes every operator for a unary one
OperandsOneAtMost(type) == IF type = "kClause" THEN 0 ELSE 1

\* Reader::Reader: what the switch adds to n for an element
Operands(type) ==
    CASE type = "kClause" -> 0
      [] type = "kNot" -> 1
      [] type = "kOr" -> 2
      [] type = "kExists" -> 1

\* Reader::Reader: the for loop; end_ when n is no longer positive
RECURSIVE ReaderLoop(_, _, _)
ReaderLoop(es, end, n) ==
    IF n > 0 THEN ReaderLoop(es, end + 1, n + Operands(es[end].type) - 1)
    ELSE end

Reader(es, begin) == [begin |-> begin, end |-> ReaderLoop(es, begin, 1)]

\* Reader::arg, Reader::left, Reader::right, Reader::Build, Formula::reader
ReaderArg(es, r) == Reader(es, r.begin + 1)
ReaderLeft(es, r) == Reader(es, r.begin + 1)
ReaderRight(es, r) == Reader(es, ReaderLeft(es, r).end)
Build(es, r) == SubSeq(es, r.begin, r.end - 1)
FormulaReader(es) == Reader(es, 1)

\* Formula::Atomic, Formula::Unary, Formula::Binary
Atomic(op) == <<op>>
Unary(op, phi) == <<op>> \o phi
Binary(op, phi, psi) == <<op>> \o (phi \o psi)

\* Formula::Clause, Formula::Not, Formula::Or, Formula::Exists
FormulaClause(c) == Atomic(ElementClause(c))
FormulaNot(phi) == Unary(ElementNot, phi)
FormulaOr(phi, psi) == Binary(ElementOr, phi, psi)
FormulaExists(x, phi) == Unary(ElementExists(x), phi)

\* the clauses and the variable of the formulas, and the longest list es_
FormulaClauses == {"c1", "c2"}
FormulaVars == {"x"}
MaxElements == 5

\* two formulas made by Formula::Clause
FormulaInit ==
    /\ fm_es \in [{"l", "r"} -> {FormulaClause(c) : c \in FormulaClauses}]
    /\ fm_last = NoFormulaOp
    /\ QueryIdle /\ SplitIdle /\ RunIdle /\ TermIdle /\ FactoryIdle
    /\ ArenaIdle /\ NormIdle /\ UnifyIdle /\ SetIdle

\* the formula built takes the place of l or of r
FM_Clause ==
    /\ \E t \in {"l", "r"}, c \in FormulaClauses :
          /\ fm_es' = [fm_es EXCEPT ![t] = FormulaClause(c)]
          /\ fm_last' = [op |-> "Clause", t |-> t, phi |-> <<>>, psi |-> <<>>]
    /\ UNCHANGED notFormula

FM_Not ==
    /\ \E t \in {"l", "r"}, o \in {"l", "r"} :
          /\ Len(fm_es[o]) < MaxElements
          /\ fm_es' = [fm_es EXCEPT ![t] = FormulaNot(fm_es[o])]
          /\ fm_last' = [op |-> "Not", t |-> t, phi |-> fm_es[o], psi |-> <<>>]
    /\ UNCHANGED notFormula

FM_Exists ==
    /\ \E t \in {"l", "r"}, o \in {"l", "r"}, x \in FormulaVars :
          /\ Len(fm_es[o]) < MaxElements
          /\ fm_es' = [fm_es EXCEPT ![t] = FormulaExists(x, fm_es[o])]
          /\ fm_last' = [op |-> "Exists", t |-> t, phi |-> fm_es[o], psi |-> <<>>]
    /\ UNCHANGED notFormula

FM_Or ==
    /\ \E t \in {"l", "r"} :
          /\ Len(fm_es.l) + Len(fm_es.r) < MaxElements
          /\ fm_es' = [fm_es EXCEPT ![t] = FormulaOr(fm_es.l, fm_es.r)]
          /\ fm_last' = [op |-> "Or", t |-> t, phi |-> fm_es.l, psi |-> fm_es.r]
    /\ UNCHANGED notFormula

FormulaNext == FM_Clause \/ FM_Not \/ FM_Exists \/ FM_Or

SpecFormula == FormulaInit /\ [][FormulaNext]_vars

\* C30: the reader of a formula spans its whole list; the left and the right
\* reader of Or(phi, psi) build phi and psi; the arg reader of Not(phi) and
\* of Exists(x, phi) builds phi.
C30_ReaderRoundTrip ==
    /\ \A t \in {"l", "r"} :
          FormulaReader(fm_es[t]) = [begin |-> 1, end |-> Len(fm_es[t]) + 1]
    /\ LET es == fm_es[fm_last.t] IN
       /\ fm_last.op = "Or" =>
             /\ FormulaEq(Build(es, ReaderLeft(es, FormulaReader(es))), fm_last.phi)
             /\ FormulaEq(Build(es, ReaderRight(es, FormulaReader(es))), fm_last.psi)
       /\ fm_last.op \in {"Not", "Exists"} =>
             FormulaEq(Build(es, ReaderArg(es, FormulaReader(es))), fm_last.phi)

\* Or(Or(phi1, phi2), psi): the left operand is itself a disjunction
C30_Witness ==
    /\ fm_last.op = "Or"
    /\ Len(fm_last.phi) >= 3 /\ fm_last.phi[1].type = "kOr"
    /\ fm_last.psi # fm_last.phi

=============================================================================
